---- MODULE Spec2Model ----
(***************************************************************************)
(* Model of PLCrashAsyncObjCSection.cpp: the async-safe Objective-C        *)
(* metadata parser (RO cache, section map cache, ObjC1 and ObjC2 walkers,  *)
(* unified parser and best-IMP finder).                                    *)
(*                                                                         *)
(* The target task's memory is a static table of typed objects at numeric  *)
(* addresses; an image is a set of section descriptors over that memory.   *)
(* All images are in the byte order of the host, so byteorder->swap* is    *)
(* the identity on every value read.                                       *)
(***************************************************************************)
EXTENDS Integers, Sequences, FiniteSets, TLC

VARIABLES world, cache, phase, last, repeat, ghost

vars == <<world, cache, phase, last, repeat, ghost>>

(***************************************************************************)
(* Program constants                                                       *)
(***************************************************************************)
\* A flags word (class.info, class_rw.flags) is the set of the numbers of its
\* set bits, and a flag is the number of its bit: 0x4000, 1<<31 and 1<<27.
CLS_NO_METHOD_ARRAY == 14
RW_REALIZED == 31
RW_COPIED_RO == 27
\* (uint32_t) -1; addresses of the model lie below 2^31
END_OF_METHODS_LIST == -1
ClassCacheCapacity == 1024

ESUCCESS == "ESUCCESS"
ENOTFOUND == "ENOTFOUND"
EINVAL == "EINVAL"
EUNKNOWN == "EUNKNOWN"
EACCESS == "EACCESS"

\* a NULL image pointer, and a NULL classCacheKeys / classCacheValues pointer
NoImage == 0
NullArray == <<>>

\* (x & flag) != 0
HasFlag(x, flag) == flag \in x

\* x & ~3
ClearLow2(x) == x - (x % 4)

\* TAGGED_ISA(x): x & 0x1fffffff8 in an arm64 build (for x below 2^31), else x
Arm64Build == FALSE
TAGGED_ISA(x) == IF Arm64Build THEN x - (x % 8) ELSE x

\* sizeof() of the on-wire records
SizeofClass(m64) == IF m64 THEN 40 ELSE 20
SizeofClassRW(m64) == IF m64 THEN 16 ELSE 12
SizeofClassRO(m64) == IF m64 THEN 72 ELSE 40
SizeofMethod(m64) == IF m64 THEN 24 ELSE 12
\* offsets of the fields name and imp of pl_objc2_method_32 / pl_objc2_method_64
MethodNameOffset == 0
MethodImpOffset(m64) == IF m64 THEN 16 ELSE 8
SizeofPtr(m64) == IF m64 THEN 8 ELSE 4
SizeofCategory == 24
SizeofListHeader == 8
SizeofModule == 16
SizeofSymtab == 12
SizeofClass1 == 40
SizeofMethodList1 == 8
SizeofMethod1 == 12
SizeofPtr32 == 4

(***************************************************************************)
(* External collaborators (image abstraction, cross-task reads)            *)
(***************************************************************************)
NoMobj == [image |-> 0, sect |-> "none", task_address |-> 0, length |-> 0]

\* plcrash_async_mobject_remap_address: non-NULL iff the range lies in mobj
remap_address(mobj, addr, len) ==
    /\ addr >= mobj.task_address
    /\ addr + len <= mobj.task_address + mobj.length

\* plcrash_async_task_memcpy: status of a cross-task read at addr
task_memcpy(w, addr) == IF addr \in w.readable THEN ESUCCESS ELSE EUNKNOWN

\* plcrash_async_macho_string_init: status of making a string handle at addr
string_init(w, addr) ==
    IF addr \in DOMAIN w.mem /\ w.mem[addr].kind = "str" THEN ESUCCESS ELSE EUNKNOWN

\* the C string a handle resolves to
StringAt(w, addr) == w.mem[addr].s

\* plcrash_async_macho_map_section: status of mapping a section, and the
\* memory object it yields on success
map_section(w, image, sect) ==
    [err |-> w.images[image].sections[sect].st,
     mobj |-> [image |-> image, sect |-> sect,
               task_address |-> w.images[image].sections[sect].base,
               length |-> w.images[image].sections[sect].len]]

(***************************************************************************)
(* Class-RO cache                                                          *)
(***************************************************************************)
ZeroArray == [i \in 0..(ClassCacheCapacity - 1) |-> 0]

cache_index(context, key) == (key \div 4) % context.classCacheSize

\* a lookup that does not compare the key held by the bucket
cache_lookup_NoKeyCheck(context, key) ==
    IF context.classCacheSize > 0
    THEN context.classCacheValues[cache_index(context, key)]
    ELSE 0

cache_lookup(context, key) ==
    IF context.classCacheSize > 0
    THEN IF context.classCacheKeys[cache_index(context, key)] = key
         THEN context.classCacheValues[cache_index(context, key)]
         ELSE 0
    ELSE 0

\* a bucket write that evicts the entry already there
cache_set_bucket_Evict(context, key, value) ==
    [context EXCEPT !.classCacheKeys[cache_index(context, key)] = key,
                    !.classCacheValues[cache_index(context, key)] = value]

\* the bucket write at the end of cache_set
cache_set_bucket(context, key, value) ==
    IF context.classCacheKeys[cache_index(context, key)] = 0
    THEN [context EXCEPT !.classCacheKeys[cache_index(context, key)] = key,
                         !.classCacheValues[cache_index(context, key)] = value]
    ELSE context

\* allocOk: the outcome of vm_allocate, consulted only when the arena is unallocated
cache_set(context, key, value, allocOk) ==
    IF context.classCacheKeys = NullArray
    THEN IF allocOk
         THEN cache_set_bucket([context EXCEPT !.classCacheSize = ClassCacheCapacity,
                                               !.classCacheKeys = ZeroArray,
                                               !.classCacheValues = ZeroArray],
                               key, value)
         ELSE [context EXCEPT !.classCacheSize = 0]
    ELSE cache_set_bucket(context, key, value)

(***************************************************************************)
(* Section map cache                                                       *)
(***************************************************************************)
kObjCModuleInfoSectionName == "__module_info"
kClassListSectionName == "__objc_classlist"
kCategoryListSectionName == "__objc_catlist"
kObjCConstSectionName == "__objc_const"
kObjCDataSectionName == "__objc_data"

\* the order in which map_sections maps the four __DATA sections
SectionOrder == <<kObjCConstSectionName, kClassListSectionName,
                  kCategoryListSectionName, kObjCDataSectionName>>

\* a handle on a resource of the crashed task's reporter: a section mapping is
\* named by its memory object, the cache arena by Arena
Arena == [NoMobj EXCEPT !.sect = "classCacheKeys"]
Acquire(res) == [op |-> "acquire", res |-> res]
Release(res) == [op |-> "release", res |-> res]

\* the plcrash_async_mobject_free calls free_mapped_sections makes, in order
free_mapped_sections_calls(context) ==
    (IF context.objcConstMobjInitialized THEN <<Release(context.objcConstMobj)>> ELSE <<>>)
    \o (IF context.classMobjInitialized THEN <<Release(context.classMobj)>> ELSE <<>>)
    \o (IF context.catMobjInitialized THEN <<Release(context.catMobj)>> ELSE <<>>)
    \o (IF context.objcDataMobjInitialized THEN <<Release(context.objcDataMobj)>> ELSE <<>>)

\* a release that leaves the category list's flag set
free_mapped_sections_KeepFlag(context) ==
    [context EXCEPT !.objcConstMobjInitialized = FALSE,
                    !.objcConstMobj = IF context.objcConstMobjInitialized THEN NoMobj ELSE @,
                    !.classMobjInitialized = FALSE,
                    !.classMobj = IF context.classMobjInitialized THEN NoMobj ELSE @,
                    !.catMobj = IF context.catMobjInitialized THEN NoMobj ELSE @,
                    !.objcDataMobjInitialized = FALSE,
                    !.objcDataMobj = IF context.objcDataMobjInitialized THEN NoMobj ELSE @]

free_mapped_sections(context) ==
    [context EXCEPT !.objcConstMobjInitialized = FALSE,
                    !.objcConstMobj = IF context.objcConstMobjInitialized THEN NoMobj ELSE @,
                    !.classMobjInitialized = FALSE,
                    !.classMobj = IF context.classMobjInitialized THEN NoMobj ELSE @,
                    !.catMobjInitialized = FALSE,
                    !.catMobj = IF context.catMobjInitialized THEN NoMobj ELSE @,
                    !.objcDataMobjInitialized = FALSE,
                    !.objcDataMobj = IF context.objcDataMobjInitialized THEN NoMobj ELSE @]

\* a remap that records the image before the sections are mapped
map_sections_remap_EarlyImage(w, image, context) ==
    LET c0 == [free_mapped_sections(context) EXCEPT !.lastImage = image]
        m1 == map_section(w, image, kObjCConstSectionName)
        c1 == [c0 EXCEPT !.objcConstMobj = m1.mobj, !.objcConstMobjInitialized = TRUE]
        m2 == map_section(w, image, kClassListSectionName)
        c2 == [c1 EXCEPT !.classMobj = m2.mobj, !.classMobjInitialized = TRUE]
        m3 == map_section(w, image, kCategoryListSectionName)
        c3 == [c2 EXCEPT !.catMobj = m3.mobj, !.catMobjInitialized = TRUE]
        m4 == map_section(w, image, kObjCDataSectionName)
        c4 == [c3 EXCEPT !.objcDataMobj = m4.mobj, !.objcDataMobjInitialized = TRUE]
    IN  IF m1.err # ESUCCESS THEN [c |-> c0, err |-> m1.err]
        ELSE IF m2.err # ESUCCESS THEN [c |-> c1, err |-> m2.err]
        ELSE IF m3.err # ESUCCESS THEN [c |-> c2, err |-> m3.err]
        ELSE IF m4.err # ESUCCESS THEN [c |-> c3, err |-> m4.err]
        ELSE [c |-> c4, err |-> ESUCCESS]

\* a remap that keeps the previous image's slots as they are
map_sections_remap_NoFree(w, image, context) ==
    LET c0 == [context EXCEPT !.lastImage = NoImage]
        m1 == map_section(w, image, kObjCConstSectionName)
        c1 == [c0 EXCEPT !.objcConstMobj = m1.mobj, !.objcConstMobjInitialized = TRUE]
        m2 == map_section(w, image, kClassListSectionName)
        c2 == [c1 EXCEPT !.classMobj = m2.mobj, !.classMobjInitialized = TRUE]
        m3 == map_section(w, image, kCategoryListSectionName)
        c3 == [c2 EXCEPT !.catMobj = m3.mobj, !.catMobjInitialized = TRUE]
        m4 == map_section(w, image, kObjCDataSectionName)
        c4 == [c3 EXCEPT !.objcDataMobj = m4.mobj, !.objcDataMobjInitialized = TRUE]
    IN  IF m1.err # ESUCCESS THEN [c |-> c0, err |-> m1.err]
        ELSE IF m2.err # ESUCCESS THEN [c |-> c1, err |-> m2.err]
        ELSE IF m3.err # ESUCCESS THEN [c |-> c2, err |-> m3.err]
        ELSE IF m4.err # ESUCCESS THEN [c |-> c3, err |-> m4.err]
        ELSE [c |-> [c4 EXCEPT !.lastImage = image], err |-> ESUCCESS]

\* the body of map_sections after the lastImage test
map_sections_remap(w, image, context) ==
    LET c0 == [free_mapped_sections(context) EXCEPT !.lastImage = NoImage]
        m1 == map_section(w, image, kObjCConstSectionName)
        c1 == [c0 EXCEPT !.objcConstMobj = m1.mobj, !.objcConstMobjInitialized = TRUE]
        m2 == map_section(w, image, kClassListSectionName)
        c2 == [c1 EXCEPT !.classMobj = m2.mobj, !.classMobjInitialized = TRUE]
        m3 == map_section(w, image, kCategoryListSectionName)
        c3 == [c2 EXCEPT !.catMobj = m3.mobj, !.catMobjInitialized = TRUE]
        m4 == map_section(w, image, kObjCDataSectionName)
        c4 == [c3 EXCEPT !.objcDataMobj = m4.mobj, !.objcDataMobjInitialized = TRUE]
    IN  IF m1.err # ESUCCESS THEN [c |-> c0, err |-> m1.err]
        ELSE IF m2.err # ESUCCESS THEN [c |-> c1, err |-> m2.err]
        ELSE IF m3.err # ESUCCESS THEN [c |-> c2, err |-> m3.err]
        ELSE IF m4.err # ESUCCESS THEN [c |-> c3, err |-> m4.err]
        ELSE [c |-> [c4 EXCEPT !.lastImage = image], err |-> ESUCCESS]

map_sections(w, image, context) ==
    IF image = context.lastImage
    THEN [c |-> context, err |-> ESUCCESS]
    ELSE map_sections_remap(w, image, context)

RECURSIVE mapped_prefix(_, _, _)
\* the sections map_sections maps with success, in order: it stops at the
\* first section that fails to map
mapped_prefix(w, image, k) ==
    IF k > Len(SectionOrder) THEN <<>>
    ELSE IF map_section(w, image, SectionOrder[k]).err # ESUCCESS THEN <<>>
    ELSE <<Acquire(map_section(w, image, SectionOrder[k]).mobj)>>
             \o mapped_prefix(w, image, k + 1)

\* the mappings map_sections releases and acquires, in order
map_sections_calls(w, image, context) ==
    IF image = context.lastImage THEN <<>>
    ELSE free_mapped_sections_calls(context) \o mapped_prefix(w, image, 1)

(***************************************************************************)
(* Walker state.  A walk threads a record s through the parsers:           *)
(*   s.c      the plcrash_async_objc_cache_t                               *)
(*   s.fails  how many more vm_allocate calls are going to fail            *)
(*   s.cb     the callback and its context structure                       *)
(*   s.emitted  every (isMeta, class, method, imp) handed to the callback  *)
(*   s.reads  the cross-task reads performed, in order                     *)
(*   s.mapped the statuses map_sections returned                           *)
(*   s.events the mappings and the arena acquired and released, in order   *)
(*   s.strings the string handles initialized and freed, in order          *)
(*   s.derefs the reads of method records through the mapping, in order    *)
(*   s.misses the class parses that took the miss branch, in order         *)
(*   s.err    the local variable err of the function being executed        *)
(***************************************************************************)
\* what a read finds at an address that holds no object of the model
Zeroes == [kind |-> "zero", v |-> 0, symtab |-> 0, cls_def_count |-> 0,
           isa |-> 0, name |-> 0, info |-> {}, methods |-> 0, count |-> 0,
           imp |-> 0, data_rw |-> 0, flags |-> {}, data_ro |-> 0,
           baseMethods |-> 0, entsize |-> 0]

Load(w, addr) == IF addr \in DOMAIN w.mem THEN w.mem[addr] ELSE Zeroes

Method(isMeta, className, methodName, imp) ==
    [isMeta |-> isMeta, class |-> className, method |-> methodName, imp |-> imp]

\* a search callback that does not bound the IMP by the address searched for
search_callback_NoUpperBound(ctxStruct, m) ==
    IF m.imp >= ctxStruct.bestIMP
    THEN [ctxStruct EXCEPT !.bestIMP = m.imp]
    ELSE ctxStruct

pl_async_objc_find_method_search_callback(ctxStruct, m) ==
    IF m.imp >= ctxStruct.bestIMP /\ m.imp <= ctxStruct.searchIMP
    THEN [ctxStruct EXCEPT !.bestIMP = m.imp]
    ELSE ctxStruct

\* a call callback that does not clear outerCallback after the call
call_callback_NoClear(ctxStruct, m) ==
    IF m.imp = ctxStruct.searchIMP /\ ctxStruct.outerCallback
    THEN [ctxStruct EXCEPT !.delivered = Append(@, m)]
    ELSE ctxStruct

pl_async_objc_find_method_call_callback(ctxStruct, m) ==
    IF m.imp = ctxStruct.searchIMP /\ ctxStruct.outerCallback
    THEN [ctxStruct EXCEPT !.delivered = Append(@, m), !.outerCallback = FALSE]
    ELSE ctxStruct

\* callback(isMetaClass, &className, &methodName, imp, ctx)
Callback(s, m) ==
    [s EXCEPT !.emitted = Append(@, m),
              !.cb = IF @.kind = "search"
                     THEN pl_async_objc_find_method_search_callback(@, m)
                     ELSE pl_async_objc_find_method_call_callback(@, m)]

\* a local variable: K applied to the value assigned to it
With(v, K(_)) == K(v)

\* if (err != PLCRASH_ESUCCESS) goto cleanup / return err; otherwise go on with K
OnSuccess(s, K(_)) == IF s.err # ESUCCESS THEN s ELSE K(s)

\* a successful plcrash_async_macho_string_init / a plcrash_async_macho_string_free
\* of the handle on the string at addr
StringInit(s, addr) == [s EXCEPT !.strings = Append(@, Acquire(addr))]
StringFree(s, addr) == [s EXCEPT !.strings = Append(@, Release(addr))]

\* a read of len bytes at addr through a pointer into a mapping, the pointer
\* obtained from a remap_address that validated the bytes lo .. hi - 1
Deref(s, what, addr, len, lo, hi) ==
    [s EXCEPT !.derefs = Append(@, [what |-> what, addr |-> addr, len |-> len,
                                    lo |-> lo, hi |-> hi])]

\* a cross-task read: logs it and sets err to its status
Memcpy(w, s, what, addr) ==
    [s EXCEPT !.reads = Append(@, [what |-> what, addr |-> addr]),
              !.err = task_memcpy(w, addr)]

(***************************************************************************)
(* ObjC1 walker                                                            *)
(***************************************************************************)
\* the for loop over the methods of one method_list
RECURSIVE obj1_methods(_, _, _, _, _, _, _)
obj1_methods(w, thisListPtr, count, i, isMetaClass, className, s) ==
    IF i >= count THEN s
    ELSE LET methodPtr == thisListPtr + SizeofMethodList1 + i * SizeofMethod1
             s1 == Memcpy(w, s, "method", methodPtr)
             method == Load(w, methodPtr)
         IN  IF s1.err # ESUCCESS THEN s1
             ELSE IF string_init(w, method.name) # ESUCCESS
             THEN [s1 EXCEPT !.err = string_init(w, method.name)]
             ELSE obj1_methods(w, thisListPtr, count, i + 1, isMetaClass, className,
                      StringFree(Callback(StringInit(s1, method.name),
                                          Method(isMetaClass, className,
                                                 StringAt(w, method.name), method.imp)),
                                 method.name))

\* reading one method_list structure and iterating over it
obj1_method_list(w, thisListPtr, isMetaClass, className, s) ==
    LET s1 == Memcpy(w, s, "method_list", thisListPtr)
    IN  IF s1.err # ESUCCESS THEN s1
        ELSE obj1_methods(w, thisListPtr, Load(w, thisListPtr).count, 0,
                          isMetaClass, className, s1)

\* a scan of the pointer array that only a null pointer ends
RECURSIVE obj1_lists_NullOnly(_, _, _, _, _, _)
obj1_lists_NullOnly(w, methodListCursor, hasMultipleMethodLists, isMetaClass, className, s) ==
    IF hasMultipleMethodLists
    THEN LET s1 == Memcpy(w, s, "list_ptr", methodListCursor)
             thisListPtr == Load(w, methodListCursor).v
         IN  IF s1.err # ESUCCESS THEN s1
             ELSE IF thisListPtr = 0 THEN s1
             ELSE OnSuccess(obj1_method_list(w, thisListPtr, isMetaClass, className, s1),
                      LAMBDA s2 : obj1_lists_NullOnly(w, methodListCursor + SizeofPtr32,
                                      hasMultipleMethodLists, isMetaClass, className, s2))
    ELSE IF methodListCursor = 0 THEN s
         ELSE obj1_method_list(w, methodListCursor, isMetaClass, className, s)

\* the while (true) loop over the method lists of a class
RECURSIVE obj1_lists(_, _, _, _, _, _)
obj1_lists(w, methodListCursor, hasMultipleMethodLists, isMetaClass, className, s) ==
    IF hasMultipleMethodLists
    THEN LET s1 == Memcpy(w, s, "list_ptr", methodListCursor)
             thisListPtr == Load(w, methodListCursor).v
         IN  IF s1.err # ESUCCESS THEN s1
             ELSE IF thisListPtr = 0 \/ thisListPtr = END_OF_METHODS_LIST THEN s1
             ELSE OnSuccess(obj1_method_list(w, thisListPtr, isMetaClass, className, s1),
                      LAMBDA s2 : obj1_lists(w, methodListCursor + SizeofPtr32,
                                             hasMultipleMethodLists, isMetaClass, className, s2))
    ELSE IF methodListCursor = 0 THEN s
         ELSE obj1_method_list(w, methodListCursor, isMetaClass, className, s)

pl_async_parse_obj1_class(w, cls, isMetaClass, s) ==
    IF string_init(w, cls.name) # ESUCCESS
    THEN [s EXCEPT !.err = string_init(w, cls.name)]
    ELSE StringFree(obj1_lists(w, cls.methods, ~HasFlag(cls.info, CLS_NO_METHOD_ARRAY),
                               isMetaClass, StringAt(w, cls.name),
                               StringInit([s EXCEPT !.err = ESUCCESS], cls.name)),
                    cls.name)

\* the loop over the classes of one symtab
RECURSIVE obj1_classes(_, _, _, _, _)
obj1_classes(w, symtabPtr, classCount, i, s) ==
    IF i >= classCount THEN s
    ELSE LET cursor == symtabPtr + SizeofSymtab + i * SizeofPtr32
             classPtr == Load(w, cursor).v
             cls == Load(w, classPtr)
         IN  OnSuccess(Memcpy(w, s, "class_ptr", cursor), LAMBDA s1 :
             OnSuccess(Memcpy(w, s1, "class", classPtr), LAMBDA s2 :
             OnSuccess(pl_async_parse_obj1_class(w, cls, FALSE, s2), LAMBDA s3 :
             OnSuccess(Memcpy(w, s3, "class", cls.isa), LAMBDA s4 :
             OnSuccess(pl_async_parse_obj1_class(w, Load(w, cls.isa), TRUE, s4), LAMBDA s5 :
             obj1_classes(w, symtabPtr, classCount, i + 1, s5))))))

\* the loop over the module structs of the __module_info section
RECURSIVE obj1_modules(_, _, _, _)
obj1_modules(w, moduleMobj, moduleIndex, s) ==
    IF moduleIndex >= moduleMobj.length \div SizeofModule THEN s
    ELSE LET symtabPtr == Load(w, moduleMobj.task_address + moduleIndex * SizeofModule).symtab
         IN  IF symtabPtr = 0 THEN obj1_modules(w, moduleMobj, moduleIndex + 1, s)
             ELSE OnSuccess(Memcpy(w, s, "symtab", symtabPtr), LAMBDA s1 :
                  OnSuccess(obj1_classes(w, symtabPtr, Load(w, symtabPtr).cls_def_count, 0, s1),
                      LAMBDA s2 : obj1_modules(w, moduleMobj, moduleIndex + 1, s2)))

\* the cleanup label: the module mapping is freed on every path that mapped it
module_info_cleanup(moduleMobj, s) ==
    [s EXCEPT !.events = Append(@, Release(moduleMobj))]

pl_async_objc_parse_from_module_info(w, image, s) ==
    LET m == map_section(w, image, kObjCModuleInfoSectionName)
    IN  IF m.err # ESUCCESS THEN [s EXCEPT !.err = m.err]
        ELSE With([s EXCEPT !.events = Append(@, Acquire(m.mobj))], LAMBDA s0 :
             IF ~remap_address(m.mobj, m.mobj.task_address, SizeofModule)
             THEN module_info_cleanup(m.mobj, [s0 EXCEPT !.err = ENOTFOUND])
             ELSE module_info_cleanup(m.mobj,
                      obj1_modules(w, m.mobj, 0, [s0 EXCEPT !.err = ESUCCESS])))

(***************************************************************************)
(* ObjC2 walker                                                            *)
(***************************************************************************)
\* the for loop over the entries of an ObjC2 method list
RECURSIVE objc2_methods(_, _, _, _, _, _, _, _, _)
objc2_methods(w, m64, cursor, entsize, count, i, is_meta_class, class_name, s) ==
    IF i >= count THEN [s EXCEPT !.err = ESUCCESS]
    ELSE LET method == Load(w, cursor)
             \* the range remapped for the list: method_list_start, method_list_length
             lo == cursor - i * entsize
             hi == lo + entsize * count
         IN  With(Deref(s, "method", cursor + MethodNameOffset, SizeofPtr(m64), lo, hi),
                  LAMBDA s1 :
             IF string_init(w, method.name) # ESUCCESS
             THEN [s1 EXCEPT !.err = string_init(w, method.name)]
             ELSE objc2_methods(w, m64, cursor + entsize, entsize, count, i + 1,
                      is_meta_class, class_name,
                      StringFree(Callback(StringInit(Deref(s1, "method",
                                                           cursor + MethodImpOffset(m64),
                                                           SizeofPtr(m64), lo, hi),
                                                     method.name),
                                          Method(is_meta_class, class_name,
                                                 StringAt(w, method.name), method.imp)),
                                 method.name)))

\* a walk that takes the entry size as stored, flag bits included
objc2_method_list_NoMask(w, m64, class_name, is_meta_class, method_list_addr, s) ==
    LET header == Load(w, method_list_addr)
        entsize == header.entsize
        count == header.count
        method_list_start == method_list_addr + SizeofListHeader
        method_list_length == entsize * count
    IN  IF ~remap_address(s.c.objcConstMobj, method_list_addr, SizeofListHeader)
        THEN [s EXCEPT !.err = EINVAL]
        ELSE IF ~remap_address(s.c.objcConstMobj, method_list_start, method_list_length)
        THEN [s EXCEPT !.err = EINVAL]
        ELSE objc2_methods(w, m64, method_list_start, entsize, count, 0,
                           is_meta_class, class_name, s)

pl_async_objc_parse_objc2_method_list(w, m64, class_name, is_meta_class, method_list_addr, s) ==
    LET header == Load(w, method_list_addr)
        entsize == ClearLow2(header.entsize)
        count == header.count
        method_list_start == method_list_addr + SizeofListHeader
        method_list_length == entsize * count
    IN  IF ~remap_address(s.c.objcConstMobj, method_list_addr, SizeofListHeader)
        THEN [s EXCEPT !.err = EINVAL]
        ELSE IF ~remap_address(s.c.objcConstMobj, method_list_start, method_list_length)
        THEN [s EXCEPT !.err = EINVAL]
        ELSE objc2_methods(w, m64, method_list_start, entsize, count, 0,
                           is_meta_class, class_name, s)

\* pl_async_objc_parse_objc2_class from the class name onwards
objc2_class_methods(w, m64, cls_data_ro, is_meta_class, s) ==
    IF string_init(w, cls_data_ro.name) # ESUCCESS
    THEN [s EXCEPT !.err = string_init(w, cls_data_ro.name)]
    ELSE IF cls_data_ro.baseMethods = 0
    THEN StringInit([s EXCEPT !.err = ESUCCESS], cls_data_ro.name)
    ELSE StringFree(pl_async_objc_parse_objc2_method_list(w, m64, StringAt(w, cls_data_ro.name),
                        is_meta_class, cls_data_ro.baseMethods,
                        StringInit(s, cls_data_ro.name)),
                    cls_data_ro.name)

\* a class parser that never stores into the cache
objc2_cache_set_Skip(s, key, value) == s

\* cache_set as called by the class parser: the first s.fails allocations fail
objc2_cache_set(s, key, value) ==
    [s EXCEPT !.c = cache_set(@, key, value, s.fails = 0),
              !.fails = IF s.c.classCacheKeys = NullArray /\ @ > 0 THEN @ - 1 ELSE @,
              !.events = IF s.c.classCacheKeys = NullArray /\ s.fails = 0
                         THEN Append(@, Acquire(Arena)) ELSE @]

\* a miss branch that does not test RW_REALIZED
objc2_class_miss_NoRealizedCheck(w, m64, data_ptr, is_meta_class, s) ==
    LET s1 == Memcpy(w, s, "class_rw", data_ptr)
        cls_data_rw == Load(w, data_ptr)
        cached_data_ro_addr == cls_data_rw.data_ro
        s2 == Memcpy(w, s1, "class_ro", cached_data_ro_addr)
    IN  IF s1.err # ESUCCESS THEN s1
        ELSE IF HasFlag(cls_data_rw.flags, RW_COPIED_RO)
        THEN IF s2.err # ESUCCESS THEN s2
             ELSE objc2_class_methods(w, m64, Load(w, cached_data_ro_addr), is_meta_class,
                      objc2_cache_set(s2, data_ptr, cached_data_ro_addr))
        ELSE IF ~remap_address(s1.c.objcConstMobj, cached_data_ro_addr, SizeofClassRO(m64))
        THEN [s1 EXCEPT !.err = EINVAL]
        ELSE objc2_class_methods(w, m64, Load(w, cached_data_ro_addr), is_meta_class,
                 objc2_cache_set(s1, data_ptr, cached_data_ro_addr))

\* a miss branch that gives up with an error when the store could not allocate
objc2_class_miss_AllocFatal(w, m64, data_ptr, is_meta_class, s) ==
    LET s1 == Memcpy(w, s, "class_rw", data_ptr)
        cls_data_rw == Load(w, data_ptr)
        cached_data_ro_addr == cls_data_rw.data_ro
        s2 == Memcpy(w, s1, "class_ro", cached_data_ro_addr)
        Stored(t) == With(objc2_cache_set(t, data_ptr, cached_data_ro_addr), LAMBDA u :
                         IF u.c.classCacheKeys = NullArray
                         THEN [u EXCEPT !.err = EUNKNOWN]
                         ELSE objc2_class_methods(w, m64, Load(w, cached_data_ro_addr),
                                                  is_meta_class, u))
    IN  IF s1.err # ESUCCESS THEN s1
        ELSE IF ~HasFlag(cls_data_rw.flags, RW_REALIZED)
        THEN [s1 EXCEPT !.err = ENOTFOUND]
        ELSE IF HasFlag(cls_data_rw.flags, RW_COPIED_RO)
        THEN IF s2.err # ESUCCESS THEN s2 ELSE Stored(s2)
        ELSE IF ~remap_address(s1.c.objcConstMobj, cached_data_ro_addr, SizeofClassRO(m64))
        THEN [s1 EXCEPT !.err = EINVAL]
        ELSE Stored(s1)

\* a miss branch that stores the pair as soon as data_ro has been fetched,
\* before the flags are tested and the class_ro is obtained
objc2_class_miss_StoreFirst(w, m64, data_ptr, is_meta_class, s) ==
    LET s1 == Memcpy(w, s, "class_rw", data_ptr)
        cls_data_rw == Load(w, data_ptr)
        cached_data_ro_addr == cls_data_rw.data_ro
        s1c == objc2_cache_set(s1, data_ptr, cached_data_ro_addr)
        s2 == Memcpy(w, s1c, "class_ro", cached_data_ro_addr)
    IN  IF s1.err # ESUCCESS THEN s1
        ELSE IF ~HasFlag(cls_data_rw.flags, RW_REALIZED)
        THEN [s1c EXCEPT !.err = ENOTFOUND]
        ELSE IF HasFlag(cls_data_rw.flags, RW_COPIED_RO)
        THEN IF s2.err # ESUCCESS THEN s2
             ELSE objc2_class_methods(w, m64, Load(w, cached_data_ro_addr), is_meta_class, s2)
        ELSE IF ~remap_address(s1.c.objcConstMobj, cached_data_ro_addr, SizeofClassRO(m64))
        THEN [s1c EXCEPT !.err = EINVAL]
        ELSE objc2_class_methods(w, m64, Load(w, cached_data_ro_addr), is_meta_class, s1c)

\* the branch of pl_async_objc_parse_objc2_class taken on a cache miss
objc2_class_miss(w, m64, data_ptr, is_meta_class, s) ==
    LET s1 == Memcpy(w, s, "class_rw", data_ptr)
        cls_data_rw == Load(w, data_ptr)
        cached_data_ro_addr == cls_data_rw.data_ro
        s2 == Memcpy(w, s1, "class_ro", cached_data_ro_addr)
    IN  IF s1.err # ESUCCESS THEN s1
        ELSE IF ~HasFlag(cls_data_rw.flags, RW_REALIZED)
        THEN [s1 EXCEPT !.err = ENOTFOUND]
        ELSE IF HasFlag(cls_data_rw.flags, RW_COPIED_RO)
        THEN IF s2.err # ESUCCESS THEN s2
             ELSE objc2_class_methods(w, m64, Load(w, cached_data_ro_addr), is_meta_class,
                      objc2_cache_set(s2, data_ptr, cached_data_ro_addr))
        ELSE IF ~remap_address(s1.c.objcConstMobj, cached_data_ro_addr, SizeofClassRO(m64))
        THEN [s1 EXCEPT !.err = EINVAL]
        ELSE objc2_class_methods(w, m64, Load(w, cached_data_ro_addr), is_meta_class,
                 objc2_cache_set(s1, data_ptr, cached_data_ro_addr))

\* the branch of pl_async_objc_parse_objc2_class taken on a cache hit
objc2_class_hit(w, m64, cached_data_ro_addr, is_meta_class, s) ==
    LET s1 == Memcpy(w, s, "class_ro", cached_data_ro_addr)
    IN  IF remap_address(s.c.objcConstMobj, cached_data_ro_addr, SizeofClassRO(m64))
        THEN objc2_class_methods(w, m64, Load(w, cached_data_ro_addr), is_meta_class, s)
        ELSE IF s1.err = ESUCCESS
        THEN objc2_class_methods(w, m64, Load(w, cached_data_ro_addr), is_meta_class, s1)
        ELSE [s1 EXCEPT !.err = EINVAL]

\* the end of a parse that took the miss branch from the state s with the
\* key data_ptr: records whether the parse changed the RO cache
MissDone(s, data_ptr, s1) ==
    [s1 EXCEPT !.misses = Append(@, [key |-> data_ptr,
                                     changed |-> \/ s1.c.classCacheSize # s.c.classCacheSize
                                                 \/ s1.c.classCacheKeys # s.c.classCacheKeys
                                                 \/ s1.c.classCacheValues # s.c.classCacheValues])]

\* a class parser that never consults the cache
parse_objc2_class_NoLookup(w, m64, cls, is_meta_class, s) ==
    objc2_class_miss(w, m64, ClearLow2(cls.data_rw), is_meta_class, s)

pl_async_objc_parse_objc2_class(w, m64, cls, is_meta_class, s) ==
    LET data_ptr == ClearLow2(cls.data_rw)
        cached_data_ro_addr == cache_lookup(s.c, data_ptr)
    IN  IF cached_data_ro_addr = 0
        THEN MissDone(s, data_ptr, objc2_class_miss(w, m64, data_ptr, is_meta_class, s))
        ELSE objc2_class_hit(w, m64, cached_data_ro_addr, is_meta_class, s)

pl_async_objc_parse_objc2_category(s) == [s EXCEPT !.err = ESUCCESS]

\* the for loop over the class list
RECURSIVE objc2_classes(_, _, _, _, _)
objc2_classes(w, m64, classCount, i, s) ==
    IF i >= classCount THEN s
    ELSE LET ptr == Load(w, s.c.classMobj.task_address + i * SizeofPtr(m64)).v
             isa == Load(w, ptr).isa
         IN  IF ~remap_address(s.c.objcDataMobj, ptr, SizeofClass(m64))
             THEN [s EXCEPT !.err = EINVAL]
             ELSE OnSuccess(pl_async_objc_parse_objc2_class(w, m64, Load(w, ptr), FALSE, s),
                      LAMBDA s1 :
                  IF ~remap_address(s1.c.objcDataMobj, TAGGED_ISA(isa), SizeofClass(m64))
                  THEN [s1 EXCEPT !.err = EINVAL]
                  ELSE OnSuccess(pl_async_objc_parse_objc2_class(w, m64, Load(w, TAGGED_ISA(isa)),
                                                                 TRUE, s1),
                           LAMBDA s2 : objc2_classes(w, m64, classCount, i + 1, s2)))

\* the for loop over the category list; catPtrs_32 / catPtrs_64 alias classPtrs
RECURSIVE objc2_categories(_, _, _, _, _)
objc2_categories(w, m64, catCount, i, s) ==
    IF i >= catCount THEN s
    ELSE LET ptr == Load(w, s.c.classMobj.task_address + i * SizeofPtr(m64)).v
         IN  With(Deref(s, "category", s.c.classMobj.task_address + i * SizeofPtr(m64),
                        SizeofPtr(m64), s.c.catMobj.task_address,
                        s.c.catMobj.task_address + s.c.catMobj.length), LAMBDA s1 :
             IF ~remap_address(s1.c.objcDataMobj, ptr, SizeofCategory)
             THEN [s1 EXCEPT !.err = EINVAL]
             ELSE objc2_categories(w, m64, catCount, i + 1,
                                   pl_async_objc_parse_objc2_category(s1)))

pl_async_objc_parse_from_data_section(w, image, s) ==
    With(map_sections(w, image, s.c), LAMBDA m :
    With([s EXCEPT !.c = m.c, !.err = m.err, !.mapped = Append(@, m.err),
                   !.events = @ \o map_sections_calls(w, image, s.c)], LAMBDA s0 :
    IF m.err # ESUCCESS THEN s0
    ELSE IF ~remap_address(s0.c.classMobj, s0.c.classMobj.task_address, s0.c.classMobj.length)
    THEN [s0 EXCEPT !.err = EINVAL]
    ELSE OnSuccess(objc2_classes(w, w.images[image].m64,
                       s0.c.classMobj.length \div SizeofPtr(w.images[image].m64), 0, s0),
             LAMBDA s1 :
         IF ~remap_address(s1.c.catMobj, s1.c.catMobj.task_address, s1.c.catMobj.length)
         THEN [s1 EXCEPT !.err = EINVAL]
         ELSE objc2_categories(w, w.images[image].m64,
                  s1.c.catMobj.length \div SizeofPtr(w.images[image].m64), 0, s1))))

(***************************************************************************)
(* Unified parser and best-IMP finder                                      *)
(***************************************************************************)
\* a parser that stores the outcome of the ObjC2 walk in gotObjC2Info
parse_ClearLatch(w, image, s) ==
    With(IF ~s.c.gotObjC2Info
         THEN pl_async_objc_parse_from_module_info(w, image, s)
         ELSE [s EXCEPT !.err = ENOTFOUND], LAMBDA s1 :
    IF s1.err = ENOTFOUND
    THEN With(pl_async_objc_parse_from_data_section(w, image, s1), LAMBDA s2 :
              [s2 EXCEPT !.c.gotObjC2Info = (s2.err = ESUCCESS)])
    ELSE s1)

\* a parser that goes on to the ObjC2 walk after a successful ObjC1 walk
parse_AlsoAfterSuccess(w, image, s) ==
    With(IF ~s.c.gotObjC2Info
         THEN pl_async_objc_parse_from_module_info(w, image, s)
         ELSE [s EXCEPT !.err = ENOTFOUND], LAMBDA s1 :
    IF s1.err \in {ENOTFOUND, ESUCCESS}
    THEN With(pl_async_objc_parse_from_data_section(w, image, s1), LAMBDA s2 :
              IF s2.err = ESUCCESS THEN [s2 EXCEPT !.c.gotObjC2Info = TRUE] ELSE s2)
    ELSE s1)

plcrash_async_objc_parse(w, image, s) ==
    With(IF ~s.c.gotObjC2Info
         THEN pl_async_objc_parse_from_module_info(w, image, s)
         ELSE [s EXCEPT !.err = ENOTFOUND], LAMBDA s1 :
    IF s1.err = ENOTFOUND
    THEN With(pl_async_objc_parse_from_data_section(w, image, s1), LAMBDA s2 :
              IF s2.err = ESUCCESS THEN [s2 EXCEPT !.c.gotObjC2Info = TRUE] ELSE s2)
    ELSE s1)

SearchContext(imp) ==
    [kind |-> "search", searchIMP |-> imp, bestIMP |-> 0,
     outerCallback |-> FALSE, delivered |-> <<>>]

CallContext(bestIMP) ==
    [kind |-> "call", searchIMP |-> bestIMP, bestIMP |-> 0,
     outerCallback |-> TRUE, delivered |-> <<>>]

\* the walker state at the start of a parse
StartWalk(c, fails, cb) ==
    [c |-> c, fails |-> fails, cb |-> cb, emitted |-> <<>>, reads |-> <<>>,
     mapped |-> <<>>, events |-> <<>>, strings |-> <<>>, derefs |-> <<>>,
     misses |-> <<>>, err |-> ESUCCESS]

\* The result of plcrash_async_objc_find_method: the cache afterwards, the
\* status returned, the calls of the user's callback, and what each pass did
plcrash_async_objc_find_method(w, image, objcContext, imp, fails) ==
    With(plcrash_async_objc_parse(w, image, StartWalk(objcContext, fails, SearchContext(imp))),
         LAMBDA p1 :
    IF p1.err # ESUCCESS
    THEN [c |-> p1.c, err |-> p1.err, delivered |-> <<>>, passes |-> 1,
          pass1 |-> p1, emitted2 |-> <<>>, mapped2 |-> <<>>, reads |-> p1.reads,
          fails |-> p1.fails, events |-> p1.events, strings |-> p1.strings,
          derefs |-> p1.derefs, misses |-> p1.misses]
    ELSE IF p1.cb.bestIMP = 0
    THEN [c |-> p1.c, err |-> ENOTFOUND, delivered |-> <<>>, passes |-> 1,
          pass1 |-> p1, emitted2 |-> <<>>, mapped2 |-> <<>>, reads |-> p1.reads,
          fails |-> p1.fails, events |-> p1.events, strings |-> p1.strings,
          derefs |-> p1.derefs, misses |-> p1.misses]
    ELSE With(plcrash_async_objc_parse(w, image,
                  StartWalk(p1.c, p1.fails, CallContext(p1.cb.bestIMP))),
              LAMBDA p2 :
         [c |-> p2.c, err |-> p2.err, delivered |-> p2.cb.delivered, passes |-> 2,
          pass1 |-> p1, emitted2 |-> p2.emitted, mapped2 |-> p2.mapped,
          reads |-> p1.reads \o p2.reads, fails |-> p2.fails,
          events |-> p1.events \o p2.events, strings |-> p1.strings \o p2.strings,
          derefs |-> p1.derefs \o p2.derefs, misses |-> p1.misses \o p2.misses]))

(***************************************************************************)
(* The target task: images and memory built from a description             *)
(*                                                                         *)
(* An image description sp has                                             *)
(*   sp.m64      the image is 64-bit                                       *)
(*   sp.st       section name -> status of mapping it                      *)
(*   sp.classes  the ObjC2 class list: <<[cls, meta, selfIsa]>>, where     *)
(*               cls / meta are [flags, rwOff, tag, roHeap, methods, pad,  *)
(*               emptyList]:                                               *)
(*               the class_rw flags, the offset of the class_rw in the     *)
(*               image, the low bits of the data_rw pointer, whether the   *)
(*               class_ro lies on the heap (else in __objc_const), the     *)
(*               IMPs of the base methods, the padding of a method record, *)
(*               whether a class without methods has a list of count 0     *)
(*   sp.nCats    the number of entries of the category list                *)
(*   sp.catGap   the distance from the class list's end to the category    *)
(*               list                                                      *)
(*   sp.unreadable  addresses at which a cross-task read fails             *)
(*   sp.objc1    the ObjC1 class: [imps, metaImps, term, noArray,           *)
(*               nullLists, tail]: the IMPs of the first method list and   *)
(*               of the metaclass's list, the terminator of the pointer    *)
(*               arrays, CLS_NO_METHOD_ARRAY, whether the methods pointer  *)
(*               is null, what follows the first pointer of the array      *)
(***************************************************************************)
ImageBase(n) == n * 1048576
ConstBase(B) == B + 4096
ClassListBase(B) == B + 8192
DataBase(B) == B + 12288
HeapRoBase(B) == B + 20480
StringBase(B) == B + 24576
ModuleInfoBase(B) == B + 28672
ObjC1Base(B) == B + 32768

ClassAddr(B, m64, k) == DataBase(B) + k * SizeofClass(m64)
RoAddr(B, k, d) == IF d.roHeap THEN HeapRoBase(B) + 128 * k ELSE ConstBase(B) + 128 * k
MethodListAddr(B, k) == ConstBase(B) + 1024 + 128 * k
ClassNameAddr(B, j) == StringBase(B) + 64 * j
MethodNameAddr(B, k, i) == StringBase(B) + 1024 + 16 * k + i

\* an object of the task's memory: the fields it has, every other field zero
Obj(r) == r @@ Zeroes

RECURSIVE MergeAll(_)
MergeAll(fs) == IF fs = <<>> THEN <<>> ELSE Head(fs) @@ MergeAll(Tail(fs))

\* the entries of a method list with the given IMPs
MethodObjs(n, B, m64, k, d) ==
    [a \in {MethodListAddr(B, k) + SizeofListHeader + (i - 1) * (SizeofMethod(m64) + d.pad) :
                i \in 1..Len(d.methods)} |->
        LET i == IF SizeofMethod(m64) + d.pad = 0 THEN 1
                 ELSE 1 + (a - MethodListAddr(B, k) - SizeofListHeader)
                              \div (SizeofMethod(m64) + d.pad)
        IN  Obj([kind |-> "method", name |-> MethodNameAddr(B, k, i), imp |-> d.methods[i]])]
    @@
    [a \in {MethodNameAddr(B, k, i) : i \in 1..Len(d.methods)} |->
        Obj([kind |-> "str", s |-> <<n, k, a - MethodNameAddr(B, k, 0)>>])]

\* class structure k of the image (k = 2j the class j, k = 2j + 1 its metaclass)
ClassObjs(n, B, m64, k, d, isa) ==
    (ClassAddr(B, m64, k) :> Obj([kind |-> "class", isa |-> isa, data_rw |-> B + d.rwOff + d.tag]))
    @@ (B + d.rwOff :> Obj([kind |-> "rw", flags |-> d.flags, data_ro |-> RoAddr(B, k, d)]))
    @@ (RoAddr(B, k, d) :> Obj([kind |-> "ro", name |-> ClassNameAddr(B, k \div 2),
             baseMethods |-> IF d.methods = <<>> /\ ~d.emptyList THEN 0
                             ELSE MethodListAddr(B, k)]))
    @@ (ClassNameAddr(B, k \div 2) :> Obj([kind |-> "str", s |-> <<n, k \div 2>>]))
    @@ (MethodListAddr(B, k) :> Obj([kind |-> "mlist",
             entsize |-> SizeofMethod(m64) + d.pad + 3, count |-> Len(d.methods)]))
    @@ MethodObjs(n, B, m64, k, d)

\* class j of the class list with its metaclass and its class-list entry
ClassPairObjs(n, B, m64, j, cd) ==
    (ClassListBase(B) + (j - 1) * SizeofPtr(m64) :>
         Obj([kind |-> "ptr", v |-> ClassAddr(B, m64, 2 * (j - 1))]))
    @@ ClassObjs(n, B, m64, 2 * (j - 1), cd.cls,
                 IF cd.selfIsa THEN ClassAddr(B, m64, 2 * (j - 1))
                 ELSE ClassAddr(B, m64, 2 * (j - 1) + 1))
    @@ (IF cd.selfIsa THEN <<>>
        ELSE ClassObjs(n, B, m64, 2 * (j - 1) + 1, cd.meta, ClassAddr(B, m64, 2 * (j - 1) + 1)))

\* the category list, laid out right behind the class list, and its categories
CategoryObjs(B, m64, nClasses, nCats, catGap) ==
    [a \in {ClassListBase(B) + catGap + (nClasses + i) * SizeofPtr(m64) : i \in 0..(nCats - 1)} |->
        Obj([kind |-> "ptr",
             v |-> DataBase(B) + 2 * nClasses * SizeofClass(m64)
                   + SizeofCategory * ((a - ClassListBase(B) - catGap) \div SizeofPtr(m64) - nClasses)])]

\* the IMP of the one method of the class's second method list
SecondListImp == 2

\* the ObjC1 metadata: two modules, the second with one class and its metaclass.
\* The class's array of method-list pointers holds the first list (or the
\* terminator when the class has no method), then one pointer per entry of
\* o.tail: the terminator for "T", the second list for "L2"
ObjC1Objs(n, B, o) ==
    LET S == ObjC1Base(B) IN
    (ModuleInfoBase(B) :> Obj([kind |-> "module", symtab |-> 0]))
    @@ (ModuleInfoBase(B) + SizeofModule :> Obj([kind |-> "module", symtab |-> S]))
    @@ (S :> Obj([kind |-> "symtab", cls_def_count |-> 1]))
    @@ (S + SizeofSymtab :> Obj([kind |-> "ptr", v |-> S + 64]))
    @@ (S + 64 :> Obj([kind |-> "class1", isa |-> S + 128, name |-> S + 512,
                       info |-> IF o.noArray THEN {CLS_NO_METHOD_ARRAY, 0} ELSE {0},
                       methods |-> IF o.nullLists THEN 0
                                   ELSE IF o.noArray
                                   THEN (IF o.imps = <<>> THEN 0 ELSE S + 256)
                                   ELSE S + 192]))
    @@ (S + 128 :> Obj([kind |-> "class1", isa |-> S + 128, name |-> S + 512,
                        info |-> {1}, methods |-> S + 208]))
    @@ (S + 192 :> Obj([kind |-> "ptr", v |-> IF o.imps = <<>> THEN o.term ELSE S + 256]))
    @@ [a \in {S + 192 + i * SizeofPtr32 : i \in 1..Len(o.tail)} |->
            Obj([kind |-> "ptr",
                 v |-> IF o.tail[(a - S - 192) \div SizeofPtr32] = "T" THEN o.term ELSE S + 320])]
    @@ (S + 208 :> Obj([kind |-> "ptr", v |-> IF o.metaImps = <<>> THEN o.term ELSE S + 384]))
    @@ (S + 212 :> Obj([kind |-> "ptr", v |-> o.term]))
    @@ (S + 256 :> Obj([kind |-> "mlist1", count |-> Len(o.imps)]))
    @@ (S + 320 :> Obj([kind |-> "mlist1", count |-> 1]))
    @@ (S + 320 + SizeofMethodList1 :> Obj([kind |-> "method", name |-> S + 560, imp |-> SecondListImp]))
    @@ (S + 560 :> Obj([kind |-> "str", s |-> <<n, 0, 9>>]))
    @@ [a \in {S + 256 + SizeofMethodList1 + (i - 1) * SizeofMethod1 : i \in 1..Len(o.imps)} |->
            LET i == 1 + (a - S - 256 - SizeofMethodList1) \div SizeofMethod1
            IN  Obj([kind |-> "method", name |-> S + 520 + i, imp |-> o.imps[i]])]
    @@ (S + 384 :> Obj([kind |-> "mlist1", count |-> Len(o.metaImps)]))
    @@ [a \in {S + 384 + SizeofMethodList1 + (i - 1) * SizeofMethod1 : i \in 1..Len(o.metaImps)} |->
            LET i == 1 + (a - S - 384 - SizeofMethodList1) \div SizeofMethod1
            IN  Obj([kind |-> "method", name |-> S + 540 + i, imp |-> o.metaImps[i]])]
    @@ (S + 512 :> Obj([kind |-> "str", s |-> <<n, 0>>]))
    @@ [a \in {S + 520 + i : i \in 1..Len(o.imps)} |->
            Obj([kind |-> "str", s |-> <<n, 0, a - S - 520>>])]
    @@ [a \in {S + 540 + i : i \in 1..Len(o.metaImps)} |->
            Obj([kind |-> "str", s |-> <<n, 1, a - S - 540>>])]

ImageMem(n, sp) ==
    LET B == ImageBase(n) IN
    MergeAll([j \in 1..Len(sp.classes) |-> ClassPairObjs(n, B, sp.m64, j, sp.classes[j])])
    @@ CategoryObjs(B, sp.m64, Len(sp.classes), sp.nCats, sp.catGap)
    @@ (IF sp.st[kObjCModuleInfoSectionName] = ESUCCESS THEN ObjC1Objs(n, B, sp.objc1) ELSE <<>>)

ImageSections(n, sp) ==
    LET B == ImageBase(n)
        nc == Len(sp.classes)
        ps == SizeofPtr(sp.m64)
        Sect(name, base, len) == [st |-> sp.st[name], base |-> base, len |-> len]
    IN  [x \in DOMAIN sp.st |->
           CASE x = kObjCConstSectionName -> Sect(x, ConstBase(B), 2048)
             [] x = kClassListSectionName -> Sect(x, ClassListBase(B), nc * ps)
             [] x = kCategoryListSectionName -> Sect(x, ClassListBase(B) + nc * ps + sp.catGap, sp.nCats * ps)
             [] x = kObjCDataSectionName ->
                    Sect(x, DataBase(B), 2 * nc * SizeofClass(sp.m64) + sp.nCats * SizeofCategory)
             [] x = kObjCModuleInfoSectionName -> Sect(x, ModuleInfoBase(B), 2 * SizeofModule)]

\* the task seen by the parser: its images, its memory, and where it can be read
MkWorld(specs) ==
    LET mem == MergeAll([n \in 1..Len(specs) |-> ImageMem(n, specs[n])])
    IN  [images |-> [n \in 1..Len(specs) |->
                        [m64 |-> specs[n].m64, sections |-> ImageSections(n, specs[n])]],
         mem |-> mem,
         readable |-> {a \in DOMAIN mem :
                          \A n \in 1..Len(specs) : a \notin specs[n].unreadable}]

(***************************************************************************)
(* The tasks the model is checked on                                       *)
(***************************************************************************)
MaxImp == 2
MaxTarget == 2
MaxAllocFails == 4

Imps == 0..MaxImp
\* the least target, the one above it and the greatest
Targets == {0, 1, MaxTarget}
\* no vm_allocate fails, the first fails, or the first MaxAllocFails fail
AllocFails == {0, 1, MaxAllocFails}

SectionNames == {kObjCModuleInfoSectionName, kObjCConstSectionName, kClassListSectionName,
                 kCategoryListSectionName, kObjCDataSectionName}

\* only ObjC2 metadata / only ObjC1 metadata / both / ObjC2 whose k-th section fails with e
StObjC2 == [x \in SectionNames |-> IF x = kObjCModuleInfoSectionName THEN ENOTFOUND ELSE ESUCCESS]
StObjC1 == [x \in SectionNames |-> IF x = kObjCModuleInfoSectionName THEN ESUCCESS ELSE ENOTFOUND]
StBoth == [x \in SectionNames |-> ESUCCESS]
StFail(k, e) == [StObjC2 EXCEPT ![SectionOrder[k]] = e]

Realized == {RW_REALIZED, 0}
Copied == {RW_REALIZED, RW_COPIED_RO}
Unrealized == {0}

RwOff(n, k) == 16384 + 256 * n + 16 * (k + 1)

Cls(flags, rwOff, methods) ==
    [flags |-> flags, rwOff |-> rwOff, tag |-> 1, roHeap |-> HasFlag(flags, RW_COPIED_RO),
     methods |-> methods, pad |-> 0, emptyList |-> FALSE]

Pair(cls, meta) == [cls |-> cls, meta |-> meta, selfIsa |-> FALSE]

NoObjC1 == [imps |-> <<>>, metaImps |-> <<>>, term |-> 0, noArray |-> FALSE, nullLists |-> FALSE, tail |-> <<"T">>]

ObjC2Image(m64, classes, nCats, catGap, st) ==
    [m64 |-> m64, st |-> st, classes |-> classes, nCats |-> nCats, catGap |-> catGap,
     objc1 |-> NoObjC1, unreadable |-> {}]

ObjC1Image(o, st) ==
    [m64 |-> FALSE, st |-> st,
     classes |-> <<Pair(Cls(Realized, RwOff(0, 0), <<1>>), Cls(Realized, RwOff(0, 1), <<>>))>>,
     nCats |-> 1, catGap |-> 0, objc1 |-> o, unreadable |-> {}]

\* the second image of a task
CompObjC1 == ObjC1Image([imps |-> <<1, 2>>, metaImps |-> <<2>>, term |-> 0, noArray |-> TRUE, nullLists |-> FALSE, tail |-> <<"T">>], StObjC1)
CompObjC2 == ObjC2Image(TRUE, <<Pair(Cls(Realized, RwOff(1, 0), <<1>>), Cls(Realized, RwOff(2, 1), <<>>))>>,
                        1, 0, StObjC2)
CompBoth == ObjC1Image([imps |-> <<2>>, metaImps |-> <<>>, term |-> END_OF_METHODS_LIST,
                        noArray |-> FALSE, nullLists |-> FALSE, tail |-> <<"T">>], StBoth)

\* one class with two methods of any IMPs and a metaclass with one, of the
\* least or the greatest IMP
WorldsImps ==
    {<<ObjC2Image(TRUE, <<Pair(Cls(Realized, RwOff(1, 0), <<a, b>>),
                               Cls(Realized, RwOff(1, 1), <<c>>))>>, 1, 0, StObjC2),
       CompObjC1>> : a \in Imps, b \in {0, 1, MaxImp}, c \in {0, MaxImp}}

\* two classes, realized or not, the second with or without the bucket of the first
WorldsFlags ==
    {<<ObjC2Image(TRUE, <<Pair(Cls(fA, RwOff(1, 0), <<1>>), Cls(fM, RwOff(1, 1), <<2>>)),
                          Pair(Cls(fB, IF collide THEN RwOff(1, 0) + 4096 ELSE RwOff(1, 2), <<2>>),
                               Cls(Realized, RwOff(1, 3), <<>>))>>, 1, 0, StObjC2),
       CompObjC2>> :
        fA \in {Realized, Unrealized, Copied}, fM \in {Realized, Unrealized},
        fB \in {Realized, Unrealized, Copied}, collide \in BOOLEAN}

\* a class list whose only class is not realized
WorldsUnrealized ==
    {<<ObjC2Image(TRUE, <<Pair(Cls(Unrealized, RwOff(1, 0), <<1>>), Cls(fM, RwOff(1, 1), <<1>>))>>,
                  1, 0, StObjC2),
       CompObjC2>> : fM \in {Realized, Unrealized}}

\* an image whose k-th section does not map
WorldsSections ==
    {<<ObjC2Image(TRUE, <<Pair(Cls(Realized, RwOff(1, 0), <<1>>), Cls(Realized, RwOff(1, 1), <<>>))>>,
                  1, 0, StFail(k, e)),
       CompObjC2>> : k \in 1..4, e \in {ENOTFOUND, EUNKNOWN}}

\* one class with one method: pointer width, category list, metaclass
WorldsShape ==
    {<<ObjC2Image(m64, <<[cls |-> Cls(Realized, RwOff(1, 0), <<1>>),
                          meta |-> Cls(Realized, IF metaCollide THEN RwOff(1, 0) + 8192
                                                 ELSE RwOff(1, 1), <<>>),
                          selfIsa |-> selfIsa]>>, cats[1], cats[2], StObjC2),
       CompBoth>> :
        m64 \in BOOLEAN, cats \in {<<0, 0>>, <<1, 0>>, <<3, 0>>, <<3, 64>>},
        selfIsa \in BOOLEAN, metaCollide \in BOOLEAN}

\* method records wider than the method structure, and a list of count 0
WorldsStride ==
    {<<ObjC2Image(m64, <<Pair([Cls(Realized, RwOff(1, 0), <<1, 2>>) EXCEPT !.pad = p],
                               [Cls(Realized, RwOff(1, 1), <<>>) EXCEPT !.pad = p,
                                                                        !.emptyList = TRUE])>>,
                  1, 0, StObjC2),
       CompObjC2>> : m64 \in BOOLEAN, p \in {0, 4, 8}}

\* a list of one method whose header gives an entry size below the size of
\* the method structure: the size less one pointer, and 0
WorldsNarrow ==
    {<<ObjC2Image(m64, <<Pair([Cls(Realized, RwOff(1, 0), <<1>>)
                                   EXCEPT !.pad = IF z THEN 0 - SizeofMethod(m64)
                                                  ELSE 0 - SizeofPtr(m64)],
                               Cls(Realized, RwOff(1, 1), <<>>))>>,
                  1, 0, StObjC2),
       CompObjC2>> : m64 \in BOOLEAN, z \in BOOLEAN}

\* an ObjC1 image
WorldsObjC1 ==
    {<<ObjC1Image([imps |-> <<a, 1>>, metaImps |-> <<c>>, term |-> 0, noArray |-> TRUE, nullLists |-> FALSE, tail |-> <<"T">>], StObjC1),
       CompObjC2>> : a \in Imps, c \in {0, 2}}
    \cup
    {<<ObjC1Image([imps |-> i, metaImps |-> <<2>>, term |-> t, noArray |-> na, nullLists |-> FALSE, tail |-> <<"T">>], st),
       CompObjC2>> :
        i \in {<<>>, <<1>>}, t \in {0, END_OF_METHODS_LIST}, na \in BOOLEAN,
        st \in {StObjC1, StBoth}}
    \cup
    {<<ObjC1Image([imps |-> <<1>>, metaImps |-> <<2>>, term |-> t, noArray |-> FALSE,
                   nullLists |-> FALSE, tail |-> tl], StObjC1),
       CompObjC2>> :
        t \in {0, END_OF_METHODS_LIST}, tl \in {<<"L2", "T">>, <<"T", "L2">>}}
    \cup
    {<<ObjC1Image([imps |-> <<1>>, metaImps |-> <<2>>, term |-> 0, noArray |-> FALSE,
                   nullLists |-> TRUE, tail |-> <<"T">>], StObjC1),
       CompObjC2>>}

\* classes whose class_rw or class_ro cannot be read
WorldsErrors ==
    {<<[ObjC2Image(TRUE, <<Pair(Cls(Realized, RwOff(1, 0), <<1>>), Cls(Realized, RwOff(1, 1), <<2>>)),
                           Pair([Cls(f, RwOff(1, 2), <<1, 2>>) EXCEPT !.roHeap = h],
                                Cls(Realized, RwOff(1, 3), <<>>))>>, 1, 0, StObjC2)
         EXCEPT !.unreadable = u],
       CompObjC2>> :
        f \in {Realized, Copied}, h \in BOOLEAN,
        u \in {{}, {ImageBase(1) + RwOff(1, 2)}, {HeapRoBase(ImageBase(1)) + 128 * 2}}}

WorldSpecs == WorldsImps \cup WorldsFlags \cup WorldsUnrealized \cup WorldsSections
              \cup WorldsShape \cup WorldsStride \cup WorldsNarrow \cup WorldsObjC1
              \cup WorldsErrors

\* the task each description stands for
Tasks == [specs \in WorldSpecs |-> MkWorld(specs)]

(***************************************************************************)
(* The cache object and the operations of the interface                    *)
(***************************************************************************)
\* the cache after plcrash_async_objc_cache_init
InitialCache ==
    [gotObjC2Info |-> FALSE, lastImage |-> NoImage,
     objcConstMobjInitialized |-> FALSE, classMobjInitialized |-> FALSE,
     catMobjInitialized |-> FALSE, objcDataMobjInitialized |-> FALSE,
     objcConstMobj |-> NoMobj, classMobj |-> NoMobj, catMobj |-> NoMobj, objcDataMobj |-> NoMobj,
     classCacheSize |-> 0, classCacheKeys |-> NullArray, classCacheValues |-> NullArray]

plcrash_async_objc_cache_init(c) ==
    [c EXCEPT !.gotObjC2Info = FALSE, !.lastImage = NoImage,
              !.objcConstMobjInitialized = FALSE, !.classMobjInitialized = FALSE,
              !.catMobjInitialized = FALSE, !.objcDataMobjInitialized = FALSE,
              !.classCacheSize = 0, !.classCacheKeys = NullArray,
              !.classCacheValues = NullArray]

plcrash_async_objc_cache_free(c) == free_mapped_sections(c)

\* what plcrash_async_objc_cache_free releases: the sections, then the arena
cache_free_calls(c) ==
    free_mapped_sections_calls(c)
    \o (IF c.classCacheKeys # NullArray THEN <<Release(Arena)>> ELSE <<>>)

\* what the last operation was and did
NoCall ==
    [op |-> "init", image |-> NoImage, imp |-> 0, fails |-> 0, err |-> ESUCCESS,
     delivered |-> <<>>, passes |-> 0, err1 |-> ESUCCESS, emitted1 |-> <<>>,
     emitted2 |-> <<>>, rwReads |-> <<>>, mapped |-> <<>>, gotBefore |-> FALSE,
     fresh |-> FALSE, failsLeft |-> 0, key |-> 0, value |-> 0,
     acquired |-> 0, released |-> 0, listReads |-> <<>>,
     strInits |-> 0, strFrees |-> 0, strLeft |-> {}, derefs |-> <<>>,
     misses |-> <<>>]

\* history kept beside the program's state: the image whose sections were
\* mapped last, the first filling of each bucket, the resources acquired and
\* not yet released, and the misuses seen so far
NoGhost == [lastMapped |-> NoImage, firstFill |-> <<>>, live |-> {}, misuse |-> {}]

\* the ledger after a sequence of acquire and release calls: acquiring a
\* resource that is still held loses the old handle, releasing one that is
\* not held releases it twice
Account(g, events) ==
    LET F[i \in 0..Len(events)] ==
            IF i = 0 THEN g
            ELSE LET e == events[i]
                     h == F[i - 1]
                 IN  IF e.op = "acquire"
                     THEN [h EXCEPT !.live = @ \cup {e.res},
                                    !.misuse = IF e.res \in h.live THEN @ \cup {"leak"} ELSE @]
                     ELSE [h EXCEPT !.live = @ \ {e.res},
                                    !.misuse = IF e.res \in h.live THEN @
                                               ELSE @ \cup {"double release"}]
    IN  F[Len(events)]

\* how many of the calls are of one kind
CountOf(events, op) == Cardinality({i \in DOMAIN events : events[i].op = op})

\* the resources acquired by some call and released by none
Unreleased(events) ==
    {events[i].res : i \in {j \in DOMAIN events : events[j].op = "acquire"}}
        \ {events[i].res : i \in {j \in DOMAIN events : events[j].op = "release"}}

Init ==
    /\ world \in WorldSpecs
    /\ cache = InitialCache
    /\ phase = "live"
    /\ last = NoCall
    /\ repeat = FALSE
    /\ ghost = NoGhost

\* the addresses of the cross-task reads of one kind, in order
ReadsOf(reads, what) ==
    LET F[i \in 0..Len(reads)] ==
            IF i = 0 THEN <<>>
            ELSE IF reads[i].what = what THEN Append(F[i - 1], reads[i].addr) ELSE F[i - 1]
    IN  F[Len(reads)]

\* the reads of ObjC1 method-list pointers and method_list structures, in order
ListReads(reads) ==
    LET F[i \in 0..Len(reads)] ==
            IF i = 0 THEN <<>>
            ELSE IF reads[i].what \in {"list_ptr", "method_list"}
                 THEN Append(F[i - 1], reads[i]) ELSE F[i - 1]
    IN  F[Len(reads)]

\* the statuses map_sections returned during a call, in order
MapResults(r) ==
    r.pass1.mapped \o (IF r.passes = 2 THEN r.mapped2 ELSE <<>>)

\* fails: how many of the call's vm_allocate calls fail (none is made once the
\* arena exists)
FindMethod(image, imp, fails) ==
    /\ phase = "live"
    /\ fails = 0 \/ cache.classCacheKeys = NullArray
    /\ \E r \in {plcrash_async_objc_find_method(Tasks[world], image, cache, imp, fails)} :
           /\ cache' = r.c
           /\ last' = [NoCall EXCEPT !.op = "find", !.image = image, !.imp = imp,
                           !.fails = fails, !.err = r.err, !.delivered = r.delivered,
                           !.passes = r.passes, !.err1 = r.pass1.err,
                           !.emitted1 = r.pass1.emitted, !.emitted2 = r.emitted2,
                           !.rwReads = ReadsOf(r.reads, "class_rw"), !.mapped = MapResults(r),
                           !.gotBefore = cache.gotObjC2Info, !.fresh = (last.op = "init"),
                           !.failsLeft = r.fails,
                           !.acquired = CountOf(r.events, "acquire"),
                           !.released = CountOf(r.events, "release"),
                           !.listReads = ListReads(r.pass1.reads),
                           !.strInits = CountOf(r.strings, "acquire"),
                           !.strFrees = CountOf(r.strings, "release"),
                           !.strLeft = Unreleased(r.strings),
                           !.derefs = r.pass1.derefs,
                           !.misses = r.misses]
           /\ repeat' = (last.op = "find" /\ last.image = image /\ last.imp = imp)
           /\ ghost' = [Account(ghost, r.events) EXCEPT !.lastMapped =
                            IF \E i \in DOMAIN MapResults(r) : MapResults(r)[i] = ESUCCESS
                            THEN image ELSE @]
    /\ UNCHANGED <<world, phase>>

CacheFree ==
    /\ phase = "live"
    /\ cache' = plcrash_async_objc_cache_free(cache)
    /\ phase' = "freed"
    /\ last' = [NoCall EXCEPT !.op = "free",
                              !.released = CountOf(cache_free_calls(cache), "release")]
    /\ repeat' = FALSE
    /\ ghost' = Account(ghost, cache_free_calls(cache))
    /\ UNCHANGED world

CacheInit ==
    /\ phase = "freed"
    /\ cache' = plcrash_async_objc_cache_init(cache)
    /\ phase' = "live"
    /\ last' = NoCall
    /\ repeat' = FALSE
    /\ ghost' = NoGhost
    /\ UNCHANGED world

Next ==
    \/ \E image \in DOMAIN world, imp \in Targets, fails \in AllocFails :
          FindMethod(image, imp, fails)
    \/ CacheFree
    \/ CacheInit

Spec == Init /\ [][Next]_vars

(***************************************************************************)
(* The RO cache on its own: any sequence of stores and lookups             *)
(***************************************************************************)
MaxValue == 2
CacheKeys == {0, 4, 8, 4100, 8196}
CacheValues == 1..MaxValue

\* index(k) as the design states it
BucketOf(k) == (k \div 4) % ClassCacheCapacity

InitCache ==
    /\ world = <<>>
    /\ cache = InitialCache
    /\ phase = "live"
    /\ last = NoCall
    /\ repeat = FALSE
    /\ ghost = NoGhost

\* ghost.firstFill records, per bucket, the first store of a non-zero key that
\* reached the allocated arena
Store(key, value, allocOk) ==
    /\ cache' = cache_set(cache, key, value, allocOk)
    /\ last' = [NoCall EXCEPT !.op = "store", !.key = key, !.value = value]
    /\ ghost' = [ghost EXCEPT !.firstFill =
                    IF /\ key # 0
                       /\ cache.classCacheKeys # NullArray \/ allocOk
                       /\ BucketOf(key) \notin DOMAIN @
                    THEN (BucketOf(key) :> [key |-> key, value |-> value]) @@ @
                    ELSE @]
    /\ UNCHANGED <<world, phase, repeat>>

Lookup(key) ==
    /\ last' = [NoCall EXCEPT !.op = "lookup", !.key = key, !.value = cache_lookup(cache, key)]
    /\ UNCHANGED <<world, cache, phase, repeat, ghost>>

NextCache ==
    \/ \E key \in CacheKeys, value \in CacheValues, allocOk \in BOOLEAN : Store(key, value, allocOk)
    \/ \E key \in CacheKeys : Lookup(key)

CacheSpec == InitCache /\ [][NextCache]_vars

(***************************************************************************)
(* Properties                                                              *)
(***************************************************************************)
IsFind == last.op = "find"

\* the description of the image of the last call
LastImage == world[last.image]

\* the greatest IMP not above the target among the methods of a list
BestOf(ms, target) ==
    CHOOSE b \in {ms[i].imp : i \in DOMAIN ms} :
        /\ b <= target
        /\ \A i \in DOMAIN ms : ms[i].imp <= target => ms[i].imp <= b

\* the first method of a list with the given IMP
FirstWith(ms, imp) ==
    ms[CHOOSE i \in DOMAIN ms : ms[i].imp = imp /\ \A j \in 1..(i - 1) : ms[j].imp # imp]

\* the entries of the RO cache
Entries(c) ==
    IF c.classCacheKeys = NullArray THEN {}
    ELSE {<<c.classCacheKeys[i], c.classCacheValues[i]>> :
             i \in {j \in DOMAIN c.classCacheKeys : c.classCacheKeys[j] # 0}}

\* the call walked the ObjC2 metadata of the image in its first pass
WalkedObjC2 == IsFind /\ last.mapped # <<>> /\ last.mapped[1] = ESUCCESS

\* C1 as stated: when the walk succeeds and some enumerated method has
\* IMP <= target, the user callback is invoked exactly once, with the first
\* method in traversal order whose IMP is the greatest IMP <= target.
C1_AnyImp ==
    (IsFind /\ last.err1 = ESUCCESS
        /\ \E i \in DOMAIN last.emitted1 : last.emitted1[i].imp <= last.imp)
    => /\ last.err = ESUCCESS
       /\ last.delivered = <<FirstWith(last.emitted1, BestOf(last.emitted1, last.imp))>>

\* C1 amended: when the walk succeeds and some enumerated method has a non-zero
\* IMP <= target, the user callback is invoked exactly once, with the first
\* method in traversal order whose IMP is the greatest IMP <= target.
C1_BestMethod ==
    (IsFind /\ last.err1 = ESUCCESS
        /\ \E i \in DOMAIN last.emitted1 :
              last.emitted1[i].imp # 0 /\ last.emitted1[i].imp <= last.imp)
    => /\ last.err = ESUCCESS
       /\ last.delivered = <<FirstWith(last.emitted1, BestOf(last.emitted1, last.imp))>>

\* a call whose best IMP is carried by two methods and which also saw a
\* method above the target
C1_Witness ==
    /\ IsFind /\ last.err = ESUCCESS /\ Len(last.delivered) = 1
    /\ \E i, j \in DOMAIN last.emitted1 :
          /\ i < j
          /\ last.emitted1[i].imp = last.delivered[1].imp
          /\ last.emitted1[j].imp = last.delivered[1].imp
          /\ last.delivered[1] = last.emitted1[i]
    /\ \E i \in DOMAIN last.emitted1 : last.emitted1[i].imp > last.imp

\* C2: when the walk succeeds but no enumerated method has IMP <= target,
\* find_method returns not-found, never invokes the user callback and does
\* not run the second pass.
C2_NotFound ==
    (IsFind /\ last.err1 = ESUCCESS
        /\ \A i \in DOMAIN last.emitted1 : last.emitted1[i].imp > last.imp)
    => (last.err = ENOTFOUND /\ last.delivered = <<>> /\ last.passes = 1)

C2_Witness ==
    /\ IsFind /\ last.err1 = ESUCCESS /\ last.emitted1 # <<>>
    /\ \A i \in DOMAIN last.emitted1 : last.emitted1[i].imp > last.imp
    /\ last.err = ENOTFOUND

\* the methods of the realized classes and metaclasses of an image, in
\* class-list order
RealizedMethods(n, sp) ==
    LET Of(k, d, isMeta) ==
            IF HasFlag(d.flags, RW_REALIZED)
            THEN [i \in 1..Len(d.methods) |->
                     Method(isMeta, <<n, k \div 2>>, <<n, k, i>>, d.methods[i])]
            ELSE <<>>
        F[j \in 0..Len(sp.classes)] ==
            IF j = 0 THEN <<>>
            ELSE F[j - 1] \o Of(2 * (j - 1), sp.classes[j].cls, FALSE)
                          \o Of(2 * (j - 1) + 1, sp.classes[j].meta, TRUE)
    IN  F[Len(sp.classes)]

\* C3: a class whose class_rw has RW_REALIZED unset gets no callback and does
\* not end the walk: the walk of an image whose classes are readable emits
\* the methods of every realized class, also of those behind the unrealized.
C3_UnrealizedSkipped ==
    (WalkedObjC2 /\ world \in WorldsFlags /\ last.image = 1)
    => last.emitted1 = RealizedMethods(1, world[1])

\* C4: on an ObjC2-only image whose class list holds a single class with
\* RW_REALIZED unset, find_method returns not-found for every target, invokes
\* no callback and leaves gotObjC2Info as it was (false on a fresh cache).
OnlyClassUnrealized(sp) ==
    /\ sp.st = StObjC2
    /\ Len(sp.classes) = 1
    /\ ~HasFlag(sp.classes[1].cls.flags, RW_REALIZED)

C5_SameResult ==
    [][(last.op = "find" /\ last'.op = "find"
          /\ last'.image = last.image /\ last'.imp = last.imp)
       => (last'.err = last.err /\ last'.delivered = last.delivered)]_vars

\* a repeated call that found its method through the warmed RO cache, on a
\* cache whose latch the first call had set
C5_Witness ==
    /\ IsFind /\ repeat /\ last.err = ESUCCESS /\ Len(last.delivered) = 1
    /\ WalkedObjC2 /\ last.rwReads = <<>> /\ last.gotBefore

\* the section slots that are initialized, in mapping order
SlotFlags(c) ==
    <<c.objcConstMobjInitialized, c.classMobjInitialized,
      c.catMobjInitialized, c.objcDataMobjInitialized>>
SlotMobjs(c) == <<c.objcConstMobj, c.classMobj, c.catMobj, c.objcDataMobj>>

\* C6 as stated: on an initialized cache either all four section slots are
\* uninitialized, or last_image is non-null and the initialized slots are the
\* mappings of that image, the image of the most recent successful
\* map_sections.
C6_AllOrNothing ==
    phase = "live" =>
        \/ \A i \in 1..4 : ~SlotFlags(cache)[i]
        \/ /\ cache.lastImage # NoImage
           /\ cache.lastImage = ghost.lastMapped
           /\ \A i \in 1..4 : SlotFlags(cache)[i] => SlotMobjs(cache)[i].image = cache.lastImage

\* C6 amended: on an initialized cache either last_image is null, and the
\* initialized slots are the fewer than four that a failed map_sections mapped
\* before its failure (a prefix of the mapping order), or last_image is
\* non-null, all four slots are initialized with the mappings of that image,
\* and it is the image of the most recent successful map_sections.
C6_SlotsOfLastImage ==
    phase = "live" =>
        IF cache.lastImage = NoImage
        THEN /\ ~SlotFlags(cache)[4]
             /\ \A i \in 1..3 : SlotFlags(cache)[i + 1] => SlotFlags(cache)[i]
        ELSE /\ cache.lastImage = ghost.lastMapped
             /\ \A i \in 1..4 : /\ SlotFlags(cache)[i]
                                /\ SlotMobjs(cache)[i].image = cache.lastImage
                                /\ SlotMobjs(cache)[i].sect = SectionOrder[i]

\* a failed call that left slots mapped after an earlier call had mapped
\* another image in full
C6_Witness ==
    /\ IsFind /\ last.err # ESUCCESS /\ cache.lastImage = NoImage
    /\ cache.classMobjInitialized
    /\ ghost.lastMapped # NoImage /\ ghost.lastMapped # last.image

\* C7: between cache_init and cache_free gotObjC2Info only changes from false
\* to true, and it does so only in a find_method call whose ObjC2 walk
\* returned success.
C7_LatchMonotonic ==
    [][(phase = "live" /\ phase' = "live")
       => /\ cache.gotObjC2Info => cache'.gotObjC2Info
          /\ (~cache.gotObjC2Info /\ cache'.gotObjC2Info)
               => (last'.op = "find" /\ last'.err1 = ESUCCESS
                   /\ last'.mapped # <<>> /\ last'.mapped[1] = ESUCCESS)]_vars

\* the latch is still set after a call whose ObjC2 walk failed
C7_Witness ==
    /\ IsFind /\ last.gotBefore /\ cache.gotObjC2Info
    /\ last.mapped # <<>> /\ last.err1 # ESUCCESS

\* C8: an ObjC2 image whose class list holds one realized class with one method
SingleClassImage(sp) ==
    /\ sp.st = StObjC2
    /\ Len(sp.classes) = 1
    /\ HasFlag(sp.classes[1].cls.flags, RW_REALIZED)
    /\ Len(sp.classes[1].cls.methods) = 1

\* the data_rw addresses of the class and the metaclass of such an image
ClassKeys(n, sp) ==
    {ImageBase(n) + sp.classes[1].cls.rwOff}
    \cup (IF sp.classes[1].selfIsa THEN {} ELSE {ImageBase(n) + sp.classes[1].meta.rwOff})

\* C8 as stated: after a successful find_method on a fresh cache for such an
\* image, gotObjC2Info is true and the RO cache contains exactly one entry.
C8_OneEntry ==
    (IsFind /\ last.fresh /\ last.err = ESUCCESS /\ SingleClassImage(LastImage))
    => (cache.gotObjC2Info /\ Cardinality(Entries(cache)) = 1)

\* C8 amended: after a successful find_method on a fresh cache for such an
\* image, gotObjC2Info is true and every entry of the RO cache maps the
\* data_rw of the class or of its metaclass to its data_ro; when no
\* allocation of the arena failed there is exactly one entry per bucket that
\* these data_rw fall into (two, or one when class and metaclass share the
\* class_rw or the bucket).
C8_EntryPerBucket ==
    (IsFind /\ last.fresh /\ last.err = ESUCCESS /\ SingleClassImage(LastImage))
    => /\ cache.gotObjC2Info
       /\ \A e \in Entries(cache) :
             /\ e[1] \in ClassKeys(last.image, LastImage)
             /\ e[2] = Tasks[world].mem[e[1]].data_ro
       /\ last.fails = 0 =>
             Cardinality(Entries(cache)) =
                 Cardinality({BucketOf(k) : k \in ClassKeys(last.image, LastImage)})

\* the class and its metaclass have left an entry each
C8_Witness ==
    /\ IsFind /\ last.fresh /\ last.err = ESUCCESS /\ SingleClassImage(LastImage)
    /\ cache.gotObjC2Info /\ Cardinality(Entries(cache)) = 2 /\ last.fails = 0

\* C9 as stated: the second of two find_method calls with the same image and
\* target performs no cross-task read of a class_rw.
C9_NoRwRead == (IsFind /\ repeat) => last.rwReads = <<>>

\* C9 amended: the second of two find_method calls with the same image and
\* target yields the same result and reads the class_rw only of classes and
\* metaclasses whose data_rw is not a key of the RO cache (the bucket is held
\* by another key, the arena could not be allocated, or the class's parse
\* failed before the store); it performs no class_rw read when every class_rw
\* the first call read is a key of the cache.
C9_ReadsOnlyUncached ==
    [][(last.op = "find" /\ last'.op = "find"
          /\ last'.image = last.image /\ last'.imp = last.imp)
       => /\ last'.err = last.err /\ last'.delivered = last.delivered
          /\ \A i \in DOMAIN last'.rwReads : cache_lookup(cache, last'.rwReads[i]) = 0
          /\ (\A i \in DOMAIN last.rwReads : cache_lookup(cache, last.rwReads[i]) # 0)
               => last'.rwReads = <<>>]_vars

\* a repeated call that walked two cached classes without reading a class_rw
C9_Witness ==
    /\ IsFind /\ repeat /\ WalkedObjC2 /\ last.err = ESUCCESS
    /\ last.rwReads = <<>> /\ Cardinality(Entries(cache)) >= 2
    /\ last.passes = 2

\* C10 as stated: lookup(k) returns 0 or the value of the first store that
\* filled bucket index(k) with key k, and a store whose bucket holds a
\* non-zero key changes neither keys[] nor values[].
C10_FirstWriterWins ==
    /\ [](last.op = "lookup" =>
            \/ last.value = 0
            \/ /\ BucketOf(last.key) \in DOMAIN ghost.firstFill
               /\ ghost.firstFill[BucketOf(last.key)] = [key |-> last.key, value |-> last.value])
    /\ [][(last'.op = "store" /\ cache.classCacheKeys # NullArray
            /\ cache.classCacheKeys[BucketOf(last'.key)] # 0)
           => cache' = cache]_vars

\* C10 amended: for every non-zero key k, lookup(k) returns 0 or the value of
\* the first store that filled bucket index(k) with key k, and a store whose
\* bucket holds a non-zero key changes neither keys[] nor values[]; key 0
\* marks an empty bucket, a store of key 0 does not claim it.
C10_FirstWriterWinsNonZero ==
    /\ []((last.op = "lookup" /\ last.key # 0) =>
            \/ last.value = 0
            \/ /\ BucketOf(last.key) \in DOMAIN ghost.firstFill
               /\ ghost.firstFill[BucketOf(last.key)] = [key |-> last.key, value |-> last.value])
    /\ [][(last'.op = "store" /\ cache.classCacheKeys # NullArray
            /\ cache.classCacheKeys[BucketOf(last'.key)] # 0)
           => cache' = cache]_vars

\* a lookup that returns the first of two values stored under a key whose
\* bucket a colliding key was stored into afterwards
C10_Witness ==
    /\ last.op = "lookup" /\ last.key = 4100 /\ last.value = 2
    /\ ghost.firstFill[BucketOf(4)] = [key |-> 4100, value |-> 2]
    /\ cache.classCacheKeys[BucketOf(4)] = 4100

\* the status and the callback tuples of a call made in the current state
Outcome(image, imp, fails) ==
    With(plcrash_async_objc_find_method(Tasks[world], image, cache, imp, fails),
         LAMBDA r : [err |-> r.err, delivered |-> r.delivered])

\* every call that can be made on the cache while its arena is unallocated
\* has the outcome it has when every allocation succeeds
SameAsWorkingCache ==
    (phase = "live" /\ cache.classCacheKeys = NullArray)
    => \A image \in DOMAIN world, imp \in Targets :
          With(Outcome(image, imp, 0), LAMBDA working :
               \A fails \in AllocFails \ {0} : Outcome(image, imp, fails) = working)

\* C11 as stated: once an arena allocation of a store has failed the RO cache
\* stays disabled (capacity 0, every lookup returns 0), and every find_method
\* call returns the status and the callback tuple it returns with a working
\* cache.
C11_DisabledForGood ==
    /\ (IsFind /\ last.failsLeft < last.fails)
         => (cache.classCacheKeys = NullArray /\ cache.classCacheSize = 0)
    /\ SameAsWorkingCache

\* C11 amended: while the arena is unallocated the RO cache is disabled
\* (capacity 0, every lookup returns 0), and it is after a call all of whose
\* allocations failed; a store after a failed allocation allocates again, and
\* the cache works from the first allocation that succeeds.  Every find_method
\* call returns the status and the callback tuple it returns with a working
\* cache.
C11_DisabledUntilAllocated ==
    /\ cache.classCacheKeys = NullArray
         => /\ cache.classCacheSize = 0
            /\ world # <<>> =>
                  \A key \in DOMAIN Tasks[world].mem : cache_lookup(cache, key) = 0
    /\ (IsFind /\ last.failsLeft > 0)
         => (cache.classCacheKeys = NullArray /\ cache.classCacheSize = 0)
    /\ SameAsWorkingCache

\* a call all of whose allocations failed has delivered its method after
\* reading the class_rw of class and metaclass in both passes
C11_Witness ==
    /\ IsFind /\ WalkedObjC2 /\ last.fails = MaxAllocFails
    /\ last.failsLeft < last.fails /\ last.failsLeft >= 0
    /\ cache.classCacheKeys = NullArray /\ cache.classCacheSize = 0
    /\ last.err = ESUCCESS /\ Len(last.delivered) = 1
    /\ last.passes = 2 /\ Len(last.rwReads) = 4


(***************************************************************************)
(* C12: mappings and the arena are released exactly once                   *)
(***************************************************************************)
\* the resources the cache object holds: the sections whose flag is set, and
\* the arena once it is allocated
HeldBy(c) ==
    (IF c.objcConstMobjInitialized THEN {c.objcConstMobj} ELSE {})
    \cup (IF c.classMobjInitialized THEN {c.classMobj} ELSE {})
    \cup (IF c.catMobjInitialized THEN {c.catMobj} ELSE {})
    \cup (IF c.objcDataMobjInitialized THEN {c.objcDataMobj} ELSE {})
    \cup (IF c.classCacheKeys # NullArray THEN {Arena} ELSE {})

\* C12: no mapping is leaked or released twice.  No handle is overwritten
\* while held and none is released while not held; between calls the
\* resources still held are exactly those in the cache's initialized slots
\* and its arena (so the __module_info mapping never outlives the call that
\* made it, and a find_method call never releases the arena); after cache_free
\* nothing is held.
C12_ReleasedOnce ==
    /\ ghost.misuse = {}
    /\ phase = "live" => ghost.live = HeldBy(cache)
    /\ phase = "freed" => ghost.live = {}
    /\ (IsFind /\ Arena \in ghost.live) => cache.classCacheKeys # NullArray

\* cache_free released the four sections and the arena of a cache that had
\* parsed an ObjC2 image
C12_Witness ==
    /\ phase = "freed"
    /\ last.op = "free"
    /\ last.released = 5
    /\ ghost.live = {}
    /\ ghost.misuse = {}


(***************************************************************************)
(* C13: the ObjC2 walk follows only a skipped or not-found ObjC1 walk      *)
(***************************************************************************)
\* the status of the ObjC1 walk of an image, on its own
ObjC1Status(image, imp) ==
    pl_async_objc_parse_from_module_info(Tasks[world], image,
        StartWalk(cache, 0, SearchContext(imp))).err

\* C13: a find_method call maps the ObjC2 sections only if the ObjC1 walk was
\* skipped (gotObjC2Info set) or ended with not-found; when the ObjC1 walk
\* ends with any other status, success included, that status is returned, no
\* ObjC2 section is mapped and the cache is left as it was.
C13_ObjC2AfterNotFound ==
    [][(phase = "live" /\ last'.op = "find")
       => With(ObjC1Status(last'.image, last'.imp), LAMBDA err1 :
               /\ Len(last'.mapped) > 0 => (cache.gotObjC2Info \/ err1 = ENOTFOUND)
               /\ (~cache.gotObjC2Info /\ err1 # ENOTFOUND)
                     => /\ last'.mapped = <<>>
                        /\ cache' = cache
                        /\ last'.err1 = err1
                        /\ last'.err \in {err1, ENOTFOUND}
                        /\ last'.err = ENOTFOUND => last'.passes = 1
                        /\ last'.acquired = last'.released)]_vars

\* an image with both ObjC1 and ObjC2 metadata was parsed from ObjC1 alone
C13_Witness ==
    /\ IsFind
    /\ \A sect \in SectionNames : world[last.image].st[sect] = ESUCCESS
    /\ last.err = ESUCCESS
    /\ last.passes = 2
    /\ Len(last.delivered) = 1
    /\ last.mapped = <<>>
    /\ ~cache.gotObjC2Info
    /\ cache.lastImage = NoImage


(***************************************************************************)
(* C14: a failed map_sections leaves a prefix and no last image            *)
(***************************************************************************)
\* the place in the mapping order of the first section of an image that
\* fails to map, 5 when all four map
FirstFailure(image) ==
    CHOOSE k \in 1..5 :
        /\ \A j \in 1..(k - 1) : world[image].st[SectionOrder[j]] = ESUCCESS
        /\ k <= 4 => world[image].st[SectionOrder[k]] # ESUCCESS

\* C14: after a find_method call that called map_sections, lastImage is set
\* (to the image) exactly when all four sections of the image map; when the
\* k-th mapping fails the call returns its status, lastImage is null and
\* exactly the k-1 slots mapped before it are initialized, with the image's
\* mappings; and a call of map_sections on a cache whose lastImage is null
\* releases every slot that was initialized before it maps again.
C14_PartialMapping ==
    [][(phase = "live" /\ last'.op = "find" /\ last'.mapped # <<>>)
       => With(FirstFailure(last'.image), LAMBDA k :
               /\ (cache'.lastImage # NoImage) <=> (k = 5)
               /\ k = 5 => cache'.lastImage = last'.image
               /\ k <= 4 =>
                     /\ last'.err = world[last'.image].st[SectionOrder[k]]
                     /\ \A i \in 1..4 :
                           /\ SlotFlags(cache')[i] <=> (i < k)
                           /\ i < k => SlotMobjs(cache')[i] =
                                 map_section(Tasks[world], last'.image, SectionOrder[i]).mobj
               /\ cache.lastImage = NoImage =>
                     /\ last'.released >= Cardinality({i \in 1..4 : SlotFlags(cache)[i]})
                     /\ ghost'.misuse = {}
                     /\ ghost'.live = HeldBy(cache'))]_vars

\* the third mapping failed again on a cache that held the two slots of the
\* same failure: the call released the two and mapped two
C14_Witness ==
    /\ IsFind
    /\ FirstFailure(last.image) = 3
    /\ last.mapped = <<EUNKNOWN>>
    /\ last.err = EUNKNOWN
    /\ cache.lastImage = NoImage
    /\ SlotFlags(cache) = <<TRUE, TRUE, FALSE, FALSE>>
    /\ last.released = 2
    /\ last.acquired = 2


(***************************************************************************)
(* C15: an image with a class list and no __objc_data                      *)
(***************************************************************************)
\* C15: when __objc_const, __objc_classlist and __objc_catlist map and
\* __objc_data is not present, map_sections returns a status other than
\* not-found, and so does the find_method call.
C15_DataMissingIsFatal ==
    (/\ IsFind
     /\ last.mapped # <<>>
     /\ FirstFailure(last.image) = 4
     /\ world[last.image].st[kObjCDataSectionName] = ENOTFOUND)
    => /\ last.mapped[Len(last.mapped)] \notin {ENOTFOUND, ESUCCESS}
       /\ last.err \notin {ENOTFOUND, ESUCCESS}


(***************************************************************************)
(* C16: an ObjC1 class with a null methods pointer and a pointer array     *)
(***************************************************************************)
\* the last call walked the ObjC1 metadata of its image
WalkedObjC1 ==
    /\ IsFind
    /\ ~last.gotBefore
    /\ world[last.image].st[kObjCModuleInfoSectionName] = ESUCCESS

\* C16: when the class's methods pointer is 0 and CLS_NO_METHOD_ARRAY is
\* unset, the scan of the class ends at once: nothing is read at address 0,
\* no method of the class is emitted, and the class parse returns success (the
\* walk goes on to the metaclass and ends with success).
C16_NullMethodsEndScan ==
    (/\ WalkedObjC1
     /\ world[last.image].objc1.nullLists
     /\ ~world[last.image].objc1.noArray)
    => /\ \A i \in DOMAIN last.listReads : last.listReads[i].addr # 0
       /\ \A i \in DOMAIN last.emitted1 : last.emitted1[i].isMeta
       /\ last.err1 = ESUCCESS


(***************************************************************************)
(* C17: the scan of an ObjC1 array of method-list pointers                 *)
(***************************************************************************)
\* the address of the class's pointer array in an image, and its entries
ArrayAddr(image, i) == ObjC1Base(ImageBase(image)) + 192 + i * SizeofPtr32
ArrayEntry(image, i) == Tasks[world].mem[ArrayAddr(image, i)].v

\* the index of the first terminator of the class's pointer array
TerminatorIndex(image) ==
    CHOOSE t \in 0..Len(world[image].objc1.tail) :
        /\ ArrayEntry(image, t) \in {0, END_OF_METHODS_LIST}
        /\ \A i \in 0..(t - 1) : ArrayEntry(image, i) \notin {0, END_OF_METHODS_LIST}

\* the IMPs of the lists in front of the terminator, in order
ImpsBefore(image, t) ==
    (IF t >= 1 THEN world[image].objc1.imps ELSE <<>>)
    \o (IF t >= 2 THEN <<SecondListImp>> ELSE <<>>)

\* the entries of a sequence that satisfy a test, in order
SelectIsMeta(ms, isMeta) ==
    LET F[i \in 0..Len(ms)] ==
            IF i = 0 THEN <<>>
            ELSE IF ms[i].isMeta = isMeta THEN Append(F[i - 1], ms[i].imp) ELSE F[i - 1]
    IN  F[Len(ms)]

\* C17: the scan of a class's array of method-list pointers ends with success
\* at the first pointer that is 0 or 0xFFFFFFFF: the pointers read are the
\* ones up to and including that terminator, the method lists read are the ones
\* in front of it, and the methods emitted for the class are the methods of
\* those lists, in order.
C17_ScanEndsAtTerminator ==
    (/\ WalkedObjC1
     /\ ~world[last.image].objc1.noArray
     /\ ~world[last.image].objc1.nullLists)
    => With(TerminatorIndex(last.image), LAMBDA t :
            /\ last.err1 = ESUCCESS
            /\ \A i \in 0..Len(world[last.image].objc1.tail) :
                  /\ (\E j \in DOMAIN last.listReads :
                          last.listReads[j] = [what |-> "list_ptr", addr |-> ArrayAddr(last.image, i)])
                       <=> i <= t
                  /\ (\E j \in DOMAIN last.listReads :
                          last.listReads[j] = [what |-> "method_list", addr |-> ArrayEntry(last.image, i)])
                       <=> i < t
            /\ SelectIsMeta(last.emitted1, FALSE) = ImpsBefore(last.image, t))

\* two lists in front of a 0xFFFFFFFF terminator were walked
C17_Witness ==
    /\ WalkedObjC1
    /\ world[last.image].objc1.tail = <<"L2", "T">>
    /\ world[last.image].objc1.term = END_OF_METHODS_LIST
    /\ TerminatorIndex(last.image) = 2
    /\ SelectIsMeta(last.emitted1, FALSE) = <<1, SecondListImp>>
    /\ last.err1 = ESUCCESS


(***************************************************************************)
(* C18: the walk of an ObjC2 method list                                   *)
(***************************************************************************)
\* every class and metaclass of the image is realized and readable, its
\* class_ro lies where RW_COPIED_RO says, and no class is its own metaclass
PlainImage(sp) ==
    /\ sp.unreadable = {}
    /\ \A j \in DOMAIN sp.classes :
          /\ ~sp.classes[j].selfIsa
          /\ \A d \in {sp.classes[j].cls, sp.classes[j].meta} :
                /\ HasFlag(d.flags, RW_REALIZED)
                /\ d.roHeap = HasFlag(d.flags, RW_COPIED_RO)

\* C18: the walk of a method list emits one callback per entry, count in all,
\* the i-th with the name and IMP at the front of the record i * (entsize & ~3)
\* bytes behind the header, whatever the padding of the records; a list of
\* count 0 emits nothing and the walk goes on with success (the walk of the
\* classes ends with success unless the category list behind it cannot be
\* walked).
C18_CountCallbacks ==
    (WalkedObjC2 /\ PlainImage(world[last.image]))
    => /\ last.emitted1 = RealizedMethods(last.image, world[last.image])
       /\ world[last.image].catGap = 0 => last.err1 = ESUCCESS

\* a list of two records with 8 bytes of padding each and a list of count 0
\* were walked
C18_Witness ==
    /\ WalkedObjC2
    /\ PlainImage(world[last.image])
    /\ world[last.image].classes[1].cls.pad = 8
    /\ world[last.image].classes[1].meta.emptyList
    /\ Len(last.emitted1) = 2
    /\ last.emitted1[2].imp = 2
    /\ last.err = ESUCCESS
    /\ Len(last.delivered) = 1


(***************************************************************************)
(* C19: the result of a call and the history of the cache                  *)
(***************************************************************************)
\* C19: every find_method call returns the status and delivers the callback
\* that the same call returns and delivers on a cache fresh from cache_init,
\* whatever images the cache was used with before.
C19_HistoryIndependent ==
    IsFind =>
        With(plcrash_async_objc_find_method(Tasks[world], last.image, InitialCache, last.imp, 0),
             LAMBDA onFresh : /\ last.err = onFresh.err
                              /\ last.delivered = onFresh.delivered)


(***************************************************************************)
(* C20: no stale image pointer, no stale key array                         *)
(***************************************************************************)
\* C20: in every state reached through cache_init, find_method and cache_free
\* a non-null lastImage comes with four initialized section slots, so the
\* early exit of map_sections cannot report success over an unmapped or
\* released slot; and the cache holds a key array only while the arena is
\* allocated, so no call reads or releases the array after cache_free
\* released it.
C20_NoStalePointers ==
    /\ cache.lastImage # NoImage => \A i \in 1..4 : SlotFlags(cache)[i]
    /\ cache.classCacheKeys # NullArray => Arena \in ghost.live


(***************************************************************************)
(* C21: string handles are released                                        *)
(***************************************************************************)
\* C21: when find_method returns, every class-name and method-name handle
\* that string_init initialized during the call has been released with
\* string_free: as many releases as initializations, and no handle that was
\* initialized and never released.
C21_HandlesBalanced ==
    IsFind => /\ last.strInits = last.strFrees
              /\ last.strLeft = {}


(***************************************************************************)
(* C22: the bytes read for the method records                              *)
(***************************************************************************)
\* the reads of the call that leave the range validated for their pointer
StrayReads ==
    {k \in DOMAIN last.derefs :
        /\ last.derefs[k].what = "method"
        /\ ~ /\ last.derefs[k].addr >= last.derefs[k].lo
             /\ last.derefs[k].addr + last.derefs[k].len <= last.derefs[k].hi}

\* C22: every byte the walk of a method list reads for a record, the name and
\* the imp of record i for i < count, lies inside the count * entsize bytes
\* that were validated against the __objc_const mapping, whatever the header's
\* entsize and count.
C22_ReadsInsideCheckedRange ==
    IsFind => StrayReads = {}


(***************************************************************************)
(* C23: where the category loop reads its pointers                         *)
(***************************************************************************)
\* the reads of category pointers of the call, in order
CatReads == SelectSeq(last.derefs, LAMBDA d : d.what = "category")

\* C23: the category pointer processed at index i < catCount is entry i of
\* the mapped __objc_catlist section: it is read at the start of that mapping
\* plus i pointers, never from the class list or behind its end.
C23_CategoryEntries ==
    IsFind => \A k \in DOMAIN CatReads :
                 CatReads[k].addr = CatReads[k].lo + (k - 1) * CatReads[k].len


(***************************************************************************)
(* C24: what the RO cache holds                                            *)
(***************************************************************************)
\* the class_ro at v can be obtained for the class_rw at k: by a copy from
\* the task when RW_COPIED_RO is set, else through the __objc_const mapping
\* of an image
RoObtainable(w, k, v) ==
    IF HasFlag(Load(w, k).flags, RW_COPIED_RO)
    THEN task_memcpy(w, v) = ESUCCESS
    ELSE \E n \in DOMAIN w.images :
            /\ map_section(w, n, kObjCConstSectionName).err = ESUCCESS
            /\ remap_address(map_section(w, n, kObjCConstSectionName).mobj, v,
                             SizeofClassRO(w.images[n].m64))

\* the class_rw at k reads as realized, its data_ro is v and v can be obtained
Validated(w, k, v) ==
    /\ task_memcpy(w, k) = ESUCCESS
    /\ HasFlag(Load(w, k).flags, RW_REALIZED)
    /\ Load(w, k).data_ro = v
    /\ RoObtainable(w, k, v)

\* a parse of the class_rw at k on the miss path fails before the store: the
\* read fails, the class is not realized, or its data_ro cannot be obtained
MissFails(w, k) ==
    \/ task_memcpy(w, k) # ESUCCESS
    \/ ~HasFlag(Load(w, k).flags, RW_REALIZED)
    \/ ~RoObtainable(w, k, Load(w, k).data_ro)

\* C24: every entry (k -> v) of the RO cache was stored after the class_rw at
\* k was read with RW_REALIZED set and the class_ro at v was obtained (by a
\* copy from the task or through the __objc_const mapping); a class parse
\* that fails on the miss path (read error, unrealized class, data_ro that
\* cannot be obtained) leaves the RO cache as it was.
C24_OnlyValidatedEntries ==
    /\ \A e \in Entries(cache) : Validated(Tasks[world], e[1], e[2])
    /\ IsFind => \A i \in DOMAIN last.misses :
                     MissFails(Tasks[world], last.misses[i].key)
                         => ~last.misses[i].changed

\* a call stored the entry of a class and then parsed, on the miss path, a
\* class that failed: of a read error / an unrealized class / a data_ro that
\* is not in the mapping
C24_Witness ==
    /\ IsFind
    /\ Entries(cache) # {}
    /\ \E i, j \in DOMAIN last.misses :
          /\ i < j
          /\ last.misses[i].changed
          /\ ~last.misses[j].changed
          /\ MissFails(Tasks[world], last.misses[j].key)
          /\ last.err # ESUCCESS

====
